---- MODULE Spec2Model ----
(***************************************************************************)
(* Element resolution, interaction and locator-strategy translation of the *)
(* appium-framework-automation page-object layer (utils/wait_util.py,      *)
(* pages/base_page.py, pages/home_page.py, pages/search_result.py).        *)
(*                                                                         *)
(* Time is counted in ticks of one poll interval (0.5 s).  `now` is the    *)
(* time slept since the running wait (a WebDriverWait.until, or the manual *)
(* polling loop of wait_for_element) began; driver commands take no time.  *)
(* The page is not part of the state: every driver query draws its outcome *)
(* from Probe, so every evolution of the page is covered; only the         *)
(* overlay scenario fixes the page, through readyAt.                       *)
(***************************************************************************)
EXTENDS Integers, Sequences, FiniteSets, TLC

VARIABLES
    now,        \* ticks slept since the running wait began
    wFn,        \* the WaitUtil function running: "none", "wait_for_element",
                \* "wait_for_clickable"
    wpc,        \* WaitUtil call: "idle", "s1", "s2", "s3", "c1", "done"
    wTimeout,   \* its timeout argument (seconds)
    wStart,     \* ticks the call had slept when its running stage began
    wEnd,       \* budget of its running stage (ticks)
    attempts,   \* wait_for_element: `attempts` of the manual polling stage
    polls,      \* history: iterations of the manual polling loop that went on
                \* to sleep
    recoveries, \* history: recovery scrolls the manual polling loop issued
    wRet,       \* its outcome
    wLog,       \* history: the stages it ran, <<[stage, start, stop, how]>>
    fpc,        \* BasePage.find_element: "idle", "primary", "fallback",
                \* "refresh", "retry", "done"
    fClickable, \* its wait_for_clickable argument
    fArg,       \* its timeout argument: {} is None, {t} is t
    fTimeout,   \* wait_timeout (seconds)
    fEnd,       \* budget of its running wait (ticks)
    fRet,       \* its outcome
    refreshes,  \* history: driver.refresh() commands issued by the call
    fLog,       \* history: how each stage the call ran ended, <<[stage, how]>>
    ppc,        \* BasePage.is_element_present: "idle", "finding", "done"
    pRet,       \* its outcome: "pending", "true", "false", "raise"
    pFound,     \* history: the outcome of the find_element call it made
    tpc,        \* BasePage.tap_element: "idle", "find", "act", "jsfind",
                \* "jsact", "done"
    tArg,       \* its timeout argument
    attempt,    \* its loop variable `attempt`
    element,    \* its variable `element`: a handle, 0 for None
    findCalls,  \* find_element calls it has made; a call's element handle is
                \* the number of the call that returned it
    tRet,       \* its outcome: "pending", "ok", "raise"
    tlog,       \* history: its resolves and the commands it issued
    hop,        \* the candidate-locator operation running, "none" if none
    hpc,        \* its position: "idle", "load", "resolve", "act", "jsfind",
                \* "jsact", "done"
    hphase,     \* the list it iterates: "chain", "indicators", or "js"
    hidx,       \* the index (from 1) of the candidate it is at
    hRet,       \* its outcome
    hlog,       \* history: the candidates it consulted and its commands
    byFn,       \* the operation translating a strategy tag, "none" if none
    by,         \* its argument `by`: a string, as a sequence of characters
    selenium_by, \* the driver strategy token it computed, "pending" before
    uop,        \* BasePage.send_text / get_text: the operation running, "none" if none
    upc,        \* its position: "idle", "find", "clear", "send", "read", "done"
    uRet,       \* its outcome: "pending", "ok", "raise"
    ulog,       \* history: its resolve and the commands it issued on the element
    spc,        \* BasePage.scroll_to_element: "idle", "find", "swipe", "done"
    max_scrolls, \* its argument max_scrolls
    scrolls,    \* its loop variable `i`
    sRet,       \* its outcome: "pending", "elem", "none", "raise"
    slog,       \* history: its resolves and swipes
    oop,        \* the optional flow running, "none" if none
    opc,        \* its position: "idle", "load", "resolve", "act", "fallback", "done"
    oidx,       \* the index (from 1) of the candidate it is at
    oRet,       \* its outcome: "pending", "ok" (returned), "raise"
    oFound,     \* history: some candidate of its list resolved
    oCmds,      \* history: the commands it issued on elements
    oClicks,    \* history: the click commands it issued that did not raise
    readyAt,    \* the scenario page: the time (ms after the call) from which the
                \* element is clickable, NoScene when the page is arbitrary
    _driver,    \* DriverManager._driver: a session handle, 0 for None
    sessions,   \* history: the sessions created so far are 1..sessions
    live,       \* history: the sessions on which quit() has not been issued
    mRet,       \* outcome of the manager call: "none", "ok", "raise"
    mlog,       \* history: the session commands the managers issued
    mOps,       \* history: the manager operations called, <<[op, ret, cmds, held]>>
    rpc,        \* the test run: "idle", "setup", "call", "teardown", "report",
                \* "finish", "ended"
    when,       \* rep.when of the phase that just ran, "none" before
    failed,     \* rep.failed of that phase
    funcargs,   \* item.funcargs.get('driver'): a session handle, 0 for None
    tests,      \* history: tests started so far
    callOutcome,\* history: how the call phase of the running test ended
    shots,      \* history: the screenshots the report hook asked for
    setup,      \* history: what the driver fixture of the running test read and
                \* raised, NoSetup before it ran
    config,     \* ConfigReader.config: the loaded YAML document
    keys,       \* ConfigReader.get: its argument *keys
    default,    \* its argument default
    gRet,       \* its outcome
    flowpc,     \* test_bangalore_hotel_search_realistic: the call it is about to make,
                \* "idle" before and "done" after
    indicator,  \* its loop over result_indicators: the index (from 1) it is at
    flowlog,    \* history: the calls it made and how each ended
    flowRet,    \* its outcome: "pending", "passed", "failed"
    contexts,   \* driver.contexts: the context names of the session, in list order
    current_context,\* driver.current_context
    xpc,        \* BasePage.__init__: "idle", "done"
    xRet,       \* its outcome: "pending", "ok", "raise"
    xlog        \* history: the driver commands _ensure_web_context issued

wvars == <<wFn, wpc, wTimeout, wStart, wEnd, attempts, polls, recoveries, wRet, wLog>>
fvars == <<fpc, fClickable, fArg, fTimeout, fEnd, fRet, refreshes, fLog>>
pvars == <<ppc, pRet, pFound>>
\* the state of the callers of the resolution operations
tvars == <<tpc, tArg, attempt, element, findCalls, tRet, tlog>>
hvars == <<hop, hpc, hphase, hidx, hRet, hlog>>
bvars == <<byFn, by, selenium_by>>
uvars == <<uop, upc, uRet, ulog>>
svars == <<spc, max_scrolls, scrolls, sRet, slog>>
ovars == <<oop, opc, oidx, oRet, oFound, oCmds, oClicks>>
evars == <<readyAt>>
mvars == <<_driver, sessions, live, mRet, mlog, mOps>>
rvars == <<rpc, when, failed, funcargs, tests, callOutcome, shots, setup>>
gvars == <<config, keys, default, gRet>>
kvars == <<flowpc, indicator, flowlog, flowRet>>
xvars == <<contexts, current_context, xpc, xRet, xlog>>
cvars == <<pvars, tvars, hvars, bvars, uvars, svars, ovars, evars, mvars, rvars, gvars, kvars, xvars>>

-----------------------------------------------------------------------------
(* Bounds and program constants *)

\* largest small timeout argument (seconds) the callers of the model pass
MaxTimeout == 2
\* leading characters of a strategy tag whose letter case is varied
MaxCasePos == 3
\* largest max_scrolls argument a test passes to scroll_to_element
MaxScrolls == 3
\* session commands a test of DriverManager issues
MaxCalls == 6
\* tests of a run
MaxTests == 2
\* keys of the longest key path passed to ConfigReader.get
MaxPath == 3
\* the most contexts a session has
MaxContexts == 3

\* ticks per second: WebDriverWait polls, and wait_for_element sleeps, every 0.5 s
TicksPerSecond == 2
\* default timeout of wait_for_element / wait_for_clickable / BasePage (seconds)
DefaultTimeout == 20
\* budget of wait_for_element's presence wait (seconds)
PresenceBudget == 10
\* cap of wait_for_element's manual polling budget (seconds)
ManualCap == 15
\* every RecoveryEvery-th failed manual poll triggers the recovery scroll
RecoveryEvery == 3
\* pause after the recovery scroll (seconds)
RecoveryPause == 1
\* budget of find_element's presence fallback (seconds)
FallbackBudget == 5
\* pause after driver.refresh() (seconds)
RefreshPause == 2
\* budget of find_element's wait after the refresh (seconds)
RetryBudget == 10

Ticks(seconds) == seconds * TicksPerSecond
Min(a, b) == IF a < b THEN a ELSE b

\* timeout arguments the model passes: the small ones and the default
Timeouts == (0..MaxTimeout) \cup {DefaultTimeout}

-----------------------------------------------------------------------------
(* The driver *)

\* Outcome of one driver query for a locator:
\*   absent   find_element raises NoSuchElementException
\*   hidden   the element is found and is_displayed() is False
\*   disabled it is displayed and is_enabled() is False
\*   ok       it is displayed and enabled
\*   error    the command raises another WebDriverException
Probe == {"absent", "hidden", "disabled", "ok", "error"}

Displayed(r) == r \in {"disabled", "ok"}
Clickable(r) == r = "ok"

\* readyAt when the test fixes no page
NoScene == -1
\* milliseconds in a number of ticks
Ms(ticks) == (ticks * 1000) \div TicksPerSecond

\* What a query of find_element can see.  On an arbitrary page, anything.
\* On the scenario page the element is rendered from the start and is
\* clickable from readyAt on; readyAt lies within the budget of the primary
\* wait, so every query after the primary wait is later than readyAt.
Answers ==
    IF readyAt = NoScene THEN Probe
    ELSE IF fpc = "primary" /\ Ms(now) < readyAt THEN {"disabled"}
    ELSE {"ok"}

NoRet == [kind |-> "pending", stage |-> 0, seen |-> "absent"]
Elem(stage, r) == [kind |-> "elem", stage |-> stage, seen |-> r]
None_(stage) == [kind |-> "none", stage |-> stage, seen |-> "absent"]
Raise(stage) == [kind |-> "raise", stage |-> stage, seen |-> "error"]

\* a wait that gives up one poll interval before its deadline
TimedOutEarly(t, deadline) == t + 1 >= deadline

\* WebDriverWait.until after a failed poll: sleep one poll interval, then
\* raise TimeoutException once the deadline has passed
TimedOut(t, deadline) == t >= deadline

-----------------------------------------------------------------------------
(* WaitUtil.wait_for_element *)

\* an entry of wLog: stage n ran from tick `start` to tick `stop` of the call
\* and ended `how`
Stage(n, how, spent) ==
    [stage |-> n, start |-> wStart, stop |-> wStart + spent, how |-> how]

\* the caller's call: wait = WebDriverWait(driver, timeout)
WaitForElementCall(timeout) ==
    /\ wpc \in {"idle", "done"}
    /\ wFn' = "wait_for_element"
    /\ wpc' = "s1"
    /\ wTimeout' = timeout
    /\ now' = 0
    /\ wStart' = 0
    /\ wEnd' = Ticks(timeout)
    /\ attempts' = 0
    /\ polls' = 0
    /\ recoveries' = 0
    /\ wRet' = NoRet
    /\ wLog' = <<>>

\* Strategy 1: one poll of EC.visibility_of_element_located
VisibilityAccepts(r) == Displayed(r)

Stage1Poll ==
    /\ wpc = "s1"
    /\ \E r \in Probe :
        IF r = "error"
        THEN /\ wpc' = "done"
             /\ wRet' = Raise(1)
             /\ wLog' = Append(wLog, Stage(1, "raise", now))
             /\ UNCHANGED <<now, wStart, wEnd, attempts, polls, recoveries>>
        ELSE IF VisibilityAccepts(r)
        THEN /\ wpc' = "done"
             /\ wRet' = Elem(1, r)
             /\ wLog' = Append(wLog, Stage(1, "found", now))
             /\ UNCHANGED <<now, wStart, wEnd, attempts, polls, recoveries>>
        ELSE /\ IF TimedOut(now + 1, wEnd)
                THEN /\ wpc' = "s2"
                     /\ wLog' = Append(wLog, Stage(1, "timeout", now + 1))
                     /\ wStart' = wStart + now + 1
                     /\ now' = 0
                     /\ wEnd' = Ticks(PresenceBudget)
                ELSE /\ now' = now + 1
                     /\ UNCHANGED <<wpc, wLog, wStart, wEnd>>
             /\ UNCHANGED <<wRet, attempts, polls, recoveries>>
    /\ UNCHANGED <<wFn, wTimeout, fvars, cvars>>

\* a presence stage that returns the element without asking is_displayed()
PresenceAcceptsUnchecked(r) == TRUE

\* Strategy 2: the element returned by the presence wait is accepted if
\* element.is_displayed()
PresenceAccepts(r) == Displayed(r)

\* a manual polling stage given the whole timeout
ManualBudgetUncapped(timeout) == timeout

\* budget of the manual polling stage: min(timeout, 15)
ManualBudget(timeout) == Min(timeout, ManualCap)

\* end_time = time.time() + min(timeout, 15); attempts = 0
EnterStage3(spent) ==
    /\ wpc' = "s3"
    /\ wStart' = wStart + spent
    /\ now' = 0
    /\ wEnd' = Ticks(ManualBudget(wTimeout))
    /\ attempts' = 0
    /\ polls' = 0
    /\ recoveries' = 0

Stage2Poll ==
    /\ wpc = "s2"
    /\ \E r \in Probe :
        IF r = "error"
        THEN /\ wpc' = "done"
             /\ wRet' = Raise(2)
             /\ wLog' = Append(wLog, Stage(2, "raise", now))
             /\ UNCHANGED <<now, wStart, wEnd, attempts, polls, recoveries>>
        ELSE IF r = "absent"
        THEN /\ IF TimedOut(now + 1, wEnd)
                THEN /\ EnterStage3(now + 1)
                     /\ wLog' = Append(wLog, Stage(2, "timeout", now + 1))
                ELSE /\ now' = now + 1
                     /\ UNCHANGED <<wpc, wLog, wStart, wEnd, attempts, polls, recoveries>>
             /\ UNCHANGED wRet
        ELSE IF PresenceAccepts(r)
        THEN /\ wpc' = "done"
             /\ wRet' = Elem(2, r)
             /\ wLog' = Append(wLog, Stage(2, "found", now))
             /\ UNCHANGED <<now, wStart, wEnd, attempts, polls, recoveries>>
        ELSE /\ EnterStage3(now)
             /\ wLog' = Append(wLog, Stage(2, "hidden", now))
             /\ UNCHANGED wRet
    /\ UNCHANGED <<wFn, wTimeout, fvars, cvars>>

\* Strategy 3: one iteration of the manual polling loop
ManualAccepts(r) == Displayed(r)

\* a loop that tries the recovery action after every poll that raised
RecoversAlways(n) == TRUE

\* if attempts % 3 == 0
Recovers(n) == n % RecoveryEvery = 0

\* the pause the recovery action adds after the n-th poll that raised:
\* execute_script then sleep(1), or nothing when execute_script raises
RecoveryPauses(n) ==
    IF Recovers(n) THEN {Ticks(RecoveryPause), 0} ELSE {0}

Stage3Poll ==
    /\ wpc = "s3"
    /\ now < wEnd
    /\ \E r \in Probe :
        IF ManualAccepts(r)
        THEN /\ wpc' = "done"
             /\ wRet' = Elem(3, r)
             /\ wLog' = Append(wLog, Stage(3, "found", now))
             /\ UNCHANGED <<now, attempts, polls, recoveries>>
        ELSE IF r = "hidden"
        THEN /\ now' = now + 1
             /\ polls' = polls + 1
             /\ UNCHANGED <<wpc, wRet, wLog, attempts, recoveries>>
        ELSE /\ attempts' = attempts + 1
             /\ polls' = polls + 1
             /\ recoveries' = IF Recovers(attempts + 1) THEN recoveries + 1 ELSE recoveries
             /\ \E pause \in RecoveryPauses(attempts + 1) :
                    now' = now + pause + 1
             /\ UNCHANGED <<wpc, wRet, wLog>>
    /\ UNCHANGED <<wFn, wTimeout, wStart, wEnd, fvars, cvars>>

Stage3Exit ==
    /\ wpc = "s3"
    /\ ~(now < wEnd)
    /\ wpc' = "done"
    /\ wRet' = None_(3)
    /\ wLog' = Append(wLog, Stage(3, "timeout", now))
    /\ UNCHANGED <<now, wFn, wTimeout, wStart, wEnd, attempts, polls, recoveries, fvars, cvars>>

WaitForElementStep == Stage1Poll \/ Stage2Poll \/ Stage3Poll \/ Stage3Exit

\* the caller takes the outcome and the call's frame is gone
WaitReset ==
    /\ wFn' = "none"
    /\ wpc' = "idle"
    /\ wTimeout' = 0
    /\ wStart' = 0
    /\ wEnd' = 0
    /\ attempts' = 0
    /\ polls' = 0
    /\ recoveries' = 0
    /\ wRet' = NoRet
    /\ wLog' = <<>>

WaitTaken == wpc = "done" /\ WaitReset

WaitIdle ==
    /\ wFn = "none"
    /\ wpc = "idle"
    /\ wTimeout = 0
    /\ wStart = 0
    /\ wEnd = 0
    /\ attempts = 0
    /\ polls = 0
    /\ recoveries = 0
    /\ wRet = NoRet
    /\ wLog = <<>>

FindIdle ==
    /\ fpc = "idle"
    /\ fClickable = FALSE
    /\ fArg = {}
    /\ fTimeout = 0
    /\ fEnd = 0
    /\ fRet = NoRet
    /\ refreshes = 0
    /\ fLog = <<>>

-----------------------------------------------------------------------------
(* WaitUtil.wait_for_clickable *)

WaitForClickableCall(timeout) ==
    /\ wpc \in {"idle", "done"}
    /\ wFn' = "wait_for_clickable"
    /\ wpc' = "c1"
    /\ wTimeout' = timeout
    /\ now' = 0
    /\ wStart' = 0
    /\ wEnd' = Ticks(timeout)
    /\ attempts' = 0
    /\ polls' = 0
    /\ recoveries' = 0
    /\ wRet' = NoRet
    /\ wLog' = <<>>

\* one poll of EC.element_to_be_clickable; TimeoutException gives None
ClickablePoll ==
    /\ wpc = "c1"
    /\ \E r \in Probe :
        IF r = "error"
        THEN /\ wpc' = "done"
             /\ wRet' = Raise(1)
             /\ UNCHANGED now
        ELSE IF Clickable(r)
        THEN /\ wpc' = "done"
             /\ wRet' = Elem(1, r)
             /\ UNCHANGED now
        ELSE /\ now' = now + 1
             /\ IF TimedOut(now', wEnd)
                THEN wpc' = "done" /\ wRet' = None_(1)
                ELSE UNCHANGED <<wpc, wRet>>
    /\ UNCHANGED <<wFn, wTimeout, wStart, wEnd, attempts, polls, recoveries, wLog, fvars, cvars>>

-----------------------------------------------------------------------------
(* BasePage.find_element *)

\* self.timeout of the page object
SelfTimeout == DefaultTimeout

\* an optional timeout argument: {} is None, {t} is t
OptTimeouts == {{}} \cup {{t} : t \in Timeouts}

\* wait_timeout = timeout or self.timeout
WaitTimeout(arg) ==
    IF arg = {} \/ arg = {0} THEN SelfTimeout ELSE CHOOSE t \in arg : TRUE

FindElementCall(arg, clickable) ==
    /\ fpc \in {"idle", "done"}
    /\ fpc' = "primary"
    /\ fClickable' = clickable
    /\ fArg' = arg
    /\ fTimeout' = WaitTimeout(arg)
    /\ now' = 0
    /\ fEnd' = Ticks(WaitTimeout(arg))
    /\ fRet' = NoRet
    /\ refreshes' = 0
    /\ fLog' = <<>>

\* the log of the call once a stage has ended
Ended(log, stage, how) == Append(log, [stage |-> stage, how |-> how])

\* the condition of the primary wait: EC.element_to_be_clickable or
\* EC.visibility_of_element_located
PrimaryAccepts(clickable, r) == IF clickable THEN Clickable(r) ELSE Displayed(r)

\* one poll of the primary wait; TimeoutException leads to the presence
\* fallback, any other exception is logged and leads to the refresh
FindPrimaryPoll ==
    /\ fpc = "primary"
    /\ \E r \in Answers :
        IF r = "error"
        THEN /\ fpc' = "refresh"
             /\ fLog' = Ended(fLog, "primary", "error")
             /\ UNCHANGED <<now, fEnd, fRet>>
        ELSE IF PrimaryAccepts(fClickable, r)
        THEN /\ fpc' = "done"
             /\ fRet' = Elem(1, r)
             /\ fLog' = Ended(fLog, "primary", "found")
             /\ UNCHANGED <<now, fEnd>>
        ELSE /\ IF TimedOut(now + 1, fEnd)
                THEN /\ fpc' = "fallback" /\ now' = 0 /\ fEnd' = Ticks(FallbackBudget)
                     /\ fLog' = Ended(fLog, "primary", "timeout")
                ELSE now' = now + 1 /\ UNCHANGED <<fpc, fEnd, fLog>>
             /\ UNCHANGED fRet
    /\ UNCHANGED <<fClickable, fArg, fTimeout, refreshes, wvars, cvars>>

\* a presence fallback that hands no element back
FallbackAcceptsNothing(r) == FALSE

\* the presence fallback accepts the element if element.is_displayed()
FallbackAccepts(r) == Displayed(r)

\* one poll of the presence fallback; every exception is swallowed
FindFallbackPoll ==
    /\ fpc = "fallback"
    /\ \E r \in Answers :
        IF r = "absent"
        THEN /\ now' = now + 1
             /\ fpc' = IF TimedOut(now', fEnd) THEN "refresh" ELSE "fallback"
             /\ fLog' = IF TimedOut(now', fEnd) THEN Ended(fLog, "fallback", "none")
                                                ELSE fLog
             /\ UNCHANGED fRet
        ELSE IF r # "error" /\ FallbackAccepts(r)
        THEN /\ fpc' = "done"
             /\ fRet' = Elem(2, r)
             /\ fLog' = Ended(fLog, "fallback", "found")
             /\ UNCHANGED now
        ELSE /\ fpc' = "refresh"
             /\ fLog' = Ended(fLog, "fallback", "none")
             /\ UNCHANGED <<now, fRet>>
    /\ UNCHANGED <<fClickable, fArg, fTimeout, fEnd, refreshes, wvars, cvars>>

\* a last-resort block without its try/except: the error reaches the caller
LastResortRaises == Raise(3)

\* the outcome when a command of the last-resort block raises: except: pass
LastResortFailed == [kind |-> "none", stage |-> 3, seen |-> "error"]

\* a last-resort block that refreshes the page twice
RefreshedTwice(n) == n + 2

\* the refresh commands issued once the last-resort block has run
\* driver.refresh()
Refreshed(n) == n + 1

\* Last resort: driver.refresh(), sleep(2), then a visibility wait (the
\* sleep precedes the wait and is not counted in `now`)
FindRefresh ==
    /\ fpc = "refresh"
    /\ refreshes' = Refreshed(refreshes)
    /\ fLog' = Ended(fLog, "refresh", "issued")
    /\ \E raised \in BOOLEAN :
        IF raised
        THEN /\ fpc' = "done"
             /\ fRet' = LastResortFailed
             /\ UNCHANGED <<now, fEnd>>
        ELSE /\ fpc' = "retry"
             /\ now' = 0
             /\ fEnd' = Ticks(RetryBudget)
             /\ UNCHANGED fRet
    /\ UNCHANGED <<fClickable, fArg, fTimeout, wvars, cvars>>

\* the wait after the refresh is EC.visibility_of_element_located
RetryAccepts(r) == Displayed(r)

FindRetryPoll ==
    /\ fpc = "retry"
    /\ \E r \in Answers :
        IF r = "error"
        THEN /\ fpc' = "done"
             /\ fRet' = LastResortFailed
             /\ UNCHANGED now
        ELSE IF RetryAccepts(r)
        THEN /\ fpc' = "done"
             /\ fRet' = Elem(3, r)
             /\ UNCHANGED now
        ELSE /\ now' = now + 1
             /\ IF TimedOut(now', fEnd)
                THEN fpc' = "done" /\ fRet' = None_(3)
                ELSE UNCHANGED <<fpc, fRet>>
    /\ UNCHANGED <<fClickable, fArg, fTimeout, fEnd, refreshes, fLog, wvars, cvars>>

FindElementStep ==
    FindPrimaryPoll \/ FindFallbackPoll \/ FindRefresh \/ FindRetryPoll

\* the caller takes the outcome and the call's frame is gone
FindTaken ==
    /\ fpc = "done"
    /\ fpc' = "idle"
    /\ fClickable' = FALSE
    /\ fArg' = {}
    /\ fTimeout' = 0
    /\ fEnd' = 0
    /\ fRet' = NoRet
    /\ refreshes' = 0
    /\ fLog' = <<>>

-----------------------------------------------------------------------------
(* BasePage.is_element_present *)

\* default timeout of is_element_present (seconds)
PresentTimeout == 5

PresentIdle == ppc = "idle" /\ pRet = "pending" /\ pFound = NoRet

\* return self.find_element(by, locator, timeout) is not None
PresentResult(ret) ==
    IF ret.kind = "raise" THEN "raise"
    ELSE IF ret.kind = "elem" THEN "true" ELSE "false"

IsElementPresentCall ==
    /\ ppc = "idle"
    /\ fpc = "idle"
    /\ wpc = "idle"
    /\ \E t \in Timeouts \cup {PresentTimeout} : FindElementCall({t}, FALSE)
    /\ ppc' = "finding"
    /\ pRet' = "pending"
    /\ pFound' = NoRet
    /\ UNCHANGED <<wvars, tvars, hvars, bvars, uvars, svars, ovars, evars, mvars, rvars, gvars, kvars, xvars>>

IsElementPresentReturn ==
    /\ ppc = "finding"
    /\ FindTaken
    /\ ppc' = "done"
    /\ pRet' = PresentResult(fRet)
    /\ pFound' = fRet
    /\ UNCHANGED <<now, wvars, tvars, hvars, bvars, uvars, svars, ovars, evars, mvars, rvars, gvars, kvars, xvars>>

IsElementPresentTaken ==
    /\ ppc = "done"
    /\ ppc' = "idle"
    /\ pRet' = "pending"
    /\ pFound' = NoRet
    /\ now' = 0
    /\ UNCHANGED <<wvars, fvars, tvars, hvars, bvars, uvars, svars, ovars, evars, mvars, rvars, gvars, kvars, xvars>>

-----------------------------------------------------------------------------
(* BasePage.tap_element *)

\* max_retries
MaxRetries == 3
\* timeout of the find_element call of the JavaScript click (seconds)
JsFindTimeout == 5

TapIdle ==
    /\ tpc = "idle"
    /\ tArg = {}
    /\ attempt = 0
    /\ element = 0
    /\ findCalls = 0
    /\ tRet = "pending"
    /\ tlog = <<>>

\* an entry of tlog: e is "resolve" (a find_element call that returned; h is
\* the handle, 0 for None; mode is the call's wait_for_clickable), "scroll",
\* "click" (element.click()) or "js" (the script click); a is `attempt`
Event(e, a, h, ok, mode) == [e |-> e, a |-> a, h |-> h, ok |-> ok, mode |-> mode]

TapElementCall(arg) ==
    /\ tpc = "idle"
    /\ tpc' = "find"
    /\ tArg' = arg
    /\ attempt' = 0
    /\ element' = 0
    /\ findCalls' = 1
    /\ tRet' = "pending"
    /\ tlog' = <<>>
    /\ FindElementCall(arg, TRUE)

\* the JavaScript click tried one attempt too early
LastAttemptEarly(a) == a = MaxRetries - 2

\* the JavaScript click tried after every failed attempt
LastAttemptAlways(a) == TRUE

\* if attempt == max_retries - 1
LastAttempt(a) == a = MaxRetries - 1

\* the except block of an attempt whose events are `log`: the JavaScript
\* click's find_element on the last attempt, otherwise sleep(1) and the next
\* iteration's find_element
TapHandler(log) ==
    /\ tlog' = log
    /\ findCalls' = findCalls + 1
    /\ IF LastAttempt(attempt)
       THEN /\ tpc' = "jsfind"
            /\ FindElementCall({JsFindTimeout}, FALSE)
            /\ UNCHANGED attempt
       ELSE /\ tpc' = "find"
            /\ attempt' = attempt + 1
            /\ FindElementCall(tArg, TRUE)

\* the handle find_element returned: the number of the call, 0 for None
Handle(ret) == IF ret.kind = "elem" THEN findCalls ELSE 0

\* element = self.find_element(by, locator, timeout, wait_for_clickable=True)
\* has returned; None raises "Element not found"
TapResolved ==
    /\ tpc = "find"
    /\ fpc = "done"
    /\ LET log == Append(tlog, Event("resolve", attempt, Handle(fRet), TRUE, fClickable))
       IN  IF fRet.kind = "elem"
           THEN /\ FindTaken
                /\ element' = Handle(fRet)
                /\ tpc' = "act"
                /\ tlog' = log
                /\ UNCHANGED <<now, attempt, findCalls>>
           ELSE /\ element' = IF fRet.kind = "none" THEN 0 ELSE element
                /\ TapHandler(log)
    /\ UNCHANGED <<tArg, tRet, wvars, pvars, hvars, bvars, uvars, svars, ovars, evars, mvars, rvars, gvars, kvars, xvars>>

\* execute_script(scrollIntoView, element); sleep(0.5); element.click()
TapAct ==
    /\ tpc = "act"
    /\ \E outcome \in {"scroll raises", "click raises", "clicked"} :
        LET s == Append(tlog, Event("scroll", attempt, element, outcome # "scroll raises", TRUE))
            c == Append(s, Event("click", attempt, element, outcome = "clicked", TRUE))
        IN  IF outcome = "scroll raises"
            THEN TapHandler(s) /\ UNCHANGED tRet
            ELSE IF outcome = "click raises"
            THEN TapHandler(c) /\ UNCHANGED tRet
            ELSE /\ tpc' = "done"
                 /\ tRet' = "ok"
                 /\ tlog' = c
                 /\ UNCHANGED <<now, attempt, findCalls, fvars>>
    /\ UNCHANGED <<tArg, element, wvars, pvars, hvars, bvars, uvars, svars, ovars, evars, mvars, rvars, gvars, kvars, xvars>>

\* a JavaScript click that falls back on the handle held from the last attempt
JsTargetStale(fresh, held) == IF fresh = 0 THEN held ELSE fresh

\* the value `element` takes in the JavaScript click: the find_element result
JsTarget(fresh, held) == fresh

\* element = self.find_element(by, locator, 5) has returned; without an
\* element all tap attempts have failed
TapJsResolved ==
    /\ tpc = "jsfind"
    /\ fpc = "done"
    /\ FindTaken
    /\ tlog' = Append(tlog, Event("resolve", attempt, Handle(fRet), TRUE, fClickable))
    /\ element' = IF fRet.kind = "raise" THEN element ELSE JsTarget(Handle(fRet), element)
    /\ IF fRet.kind # "raise" /\ element' # 0
       THEN tpc' = "jsact" /\ UNCHANGED tRet
       ELSE tpc' = "done" /\ tRet' = "raise"
    /\ UNCHANGED <<now, tArg, attempt, findCalls, wvars, pvars, hvars, bvars, uvars, svars, ovars, evars, mvars, rvars, gvars, kvars, xvars>>

\* execute_script("arguments[0].click();", element); an error is swallowed
\* and the call raises
TapJsAct ==
    /\ tpc = "jsact"
    /\ \E clicked \in BOOLEAN :
        /\ tlog' = Append(tlog, Event("js", attempt, element, clicked, FALSE))
        /\ tRet' = IF clicked THEN "ok" ELSE "raise"
    /\ tpc' = "done"
    /\ UNCHANGED <<now, tArg, attempt, element, findCalls, wvars, fvars, pvars, hvars, bvars, uvars, svars, ovars, evars, mvars, rvars, gvars, kvars, xvars>>

TapElementStep == TapResolved \/ TapAct \/ TapJsResolved \/ TapJsAct

TapTaken ==
    /\ tpc = "done"
    /\ tpc' = "idle"
    /\ tArg' = {}
    /\ attempt' = 0
    /\ element' = 0
    /\ findCalls' = 0
    /\ tRet' = "pending"
    /\ tlog' = <<>>

-----------------------------------------------------------------------------
(* BasePage.wait_for_page_load *)

\* timeout of wait_for_page_load (seconds)
PageLoadTimeout == 30

PageLoadCall ==
    /\ wpc \in {"idle", "done"}
    /\ wFn' = "wait_for_page_load"
    /\ wpc' = "pl"
    /\ wTimeout' = PageLoadTimeout
    /\ now' = 0
    /\ wStart' = 0
    /\ wEnd' = Ticks(PageLoadTimeout)
    /\ attempts' = 0
    /\ polls' = 0
    /\ recoveries' = 0
    /\ wRet' = NoRet
    /\ wLog' = <<>>

\* one poll of document.readyState == "complete"; TimeoutException is
\* logged and the call returns, any other exception leaves the call
PageLoadPoll ==
    /\ wpc = "pl"
    /\ \E r \in {"complete", "loading", "error"} :
        IF r = "error"
        THEN /\ wpc' = "done"
             /\ wRet' = Raise(1)
             /\ UNCHANGED now
        ELSE IF r = "complete"
        THEN /\ wpc' = "done"
             /\ wRet' = None_(1)
             /\ UNCHANGED now
        ELSE /\ now' = now + 1
             /\ IF TimedOut(now', wEnd)
                THEN wpc' = "done" /\ wRet' = None_(1)
                ELSE UNCHANGED <<wpc, wRet>>
    /\ UNCHANGED <<wFn, wTimeout, wStart, wEnd, attempts, polls, recoveries, wLog, fvars, cvars>>

-----------------------------------------------------------------------------
(* Locator strategies: the translation of a strategy tag to a driver token *)

\* A string is a sequence of characters; a character is a letter (or "_")
\* and whether it is written in upper case.

\* the lower-case string spelled by the letters w
Word(w) == [i \in DOMAIN w |-> [ch |-> w[i], up |-> FALSE]]

\* a lower() that leaves the string as it is written
LowerKeepsCase(str) == str

\* str.lower()
Lower(str) == [i \in DOMAIN str |-> [str[i] EXCEPT !.up = FALSE]]

\* the operations that translate the strategy tag they are given
Translators ==
    {"_convert_to_selenium_by", "wait_for_element", "wait_for_clickable",
     "wait_for_element_to_disappear"}

\* the entries of by_mapping common to all translators
CommonMapping ==
    { [key |-> Word(<<"i", "d">>), token |-> "id"],
      [key |-> Word(<<"x", "p", "a", "t", "h">>), token |-> "xpath"],
      [key |-> Word(<<"c", "s", "s", "_", "s", "e", "l", "e", "c", "t", "o", "r">>),
       token |-> "css selector"],
      [key |-> Word(<<"c", "l", "a", "s", "s", "_", "n", "a", "m", "e">>),
       token |-> "class name"],
      [key |-> Word(<<"t", "a", "g", "_", "n", "a", "m", "e">>), token |-> "tag name"],
      [key |-> Word(<<"n", "a", "m", "e">>), token |-> "name"] }

\* the entries of by_mapping that only _convert_to_selenium_by and
\* wait_for_element have
LinkMapping ==
    { [key |-> Word(<<"l", "i", "n", "k", "_", "t", "e", "x", "t">>),
       token |-> "link text"],
      [key |-> Word(<<"p", "a", "r", "t", "i", "a", "l", "_", "l", "i", "n", "k", "_",
                      "t", "e", "x", "t">>),
       token |-> "partial link text"] }

\* by_mapping of translator fn
ByMapping(fn) ==
    IF fn \in {"_convert_to_selenium_by", "wait_for_element"}
    THEN CommonMapping \cup LinkMapping
    ELSE CommonMapping

\* by_mapping.get(by.lower(), By.XPATH)
ConvertToSeleniumBy(fn, str) ==
    LET hits == {m \in ByMapping(fn) : m.key = Lower(str)}
    IN  IF hits = {} THEN "xpath" ELSE (CHOOSE m \in hits : TRUE).token

ByIdle == byFn = "none" /\ by = <<>> /\ selenium_by = "pending"

\* the translator computes the token of its argument
Translate ==
    /\ byFn \in Translators
    /\ selenium_by = "pending"
    /\ selenium_by' = ConvertToSeleniumBy(byFn, by)
    /\ UNCHANGED <<byFn, by>>

-----------------------------------------------------------------------------
(* The candidate-locator loops of HomePage and SearchPage *)

ChainOps == {"get_search_results", "tap_search_button", "tap_hotels_tab"}

\* the operations whose loop clicks the element of a candidate; after its
\* loop click_search_field tries the 'Near me' button
ClickOps == {"tap_search_button", "tap_hotels_tab", "click_search_field"}

\* len(result_locators) of get_search_results
ResultLocators == 12
\* len(page_indicators) of get_search_results
PageIndicators == 4
\* the result locators whose XPath has contains(text(), text): the first 8;
\* the other result locators and the page indicators select by class, id or
\* tag only
TextLocators == 8
\* len(button_locators) of tap_search_button
ButtonLocators == 7
\* len(locators) of tap_hotels_tab
HotelsLocators == 4
\* timeout of a result locator (seconds)
ResultTimeout == 10
\* timeout of a page indicator (seconds)
IndicatorTimeout == 5
\* timeout of a search-button or hotels-tab locator (seconds)
TapTimeout == 15
\* len(city_search_locators) of click_search_field
CitySearchLocators == 8
\* timeout of a city-search locator (seconds)
CitySearchTimeout == 8
\* timeout of the 'Near me' button of click_search_field (seconds)
NearMeTimeout == 5

ChainLen(op, phase) ==
    CASE op = "get_search_results" /\ phase = "chain" -> ResultLocators
      [] op = "get_search_results" /\ phase = "indicators" -> PageIndicators
      [] op = "tap_search_button" -> ButtonLocators
      [] op = "tap_hotels_tab" /\ phase = "chain" -> HotelsLocators
      [] op = "click_search_field" /\ phase = "chain" -> CitySearchLocators
      [] OTHER -> 1

\* the operations that call self.wait_for_page_load() first
LoadsPageFirst(op) == op \in {"get_search_results", "tap_hotels_tab"}

\* the WaitUtil call made for a candidate
ResolveCall(op, phase) ==
    CASE op = "get_search_results" /\ phase = "chain" -> WaitForElementCall(ResultTimeout)
      [] op = "get_search_results" /\ phase # "chain" -> WaitForElementCall(IndicatorTimeout)
      [] op = "click_search_field" /\ phase = "chain" ->
            WaitForClickableCall(CitySearchTimeout)
      [] op = "click_search_field" /\ phase # "chain" -> WaitForClickableCall(NearMeTimeout)
      [] OTHER -> WaitForClickableCall(TapTimeout)

\* candidate c of list `phase` of get_search_results selects only elements
\* whose text contains the argument
SelectsByText(phase, c) == phase = "chain" /\ c <= TextLocators

ChainPending == [kind |-> "pending", p |-> "chain", c |-> 0]
\* the candidate's element is returned ("elem") or was clicked ("ok")
ChainFound(kind, phase, c) == [kind |-> kind, p |-> phase, c |-> c]
ChainNone == [kind |-> "none", p |-> "chain", c |-> 0]
ChainRaise == [kind |-> "raise", p |-> "chain", c |-> 0]

\* an entry of hlog: e is "consult" (the resolve of candidate c of list p
\* returned; ok says it returned an element), "click" (the scroll and click
\* of the element of candidate c; ok says neither raised) or "js" (the script
\* click of that element; ok says it did not raise)
ChainEvent(e, phase, c, ok) == [e |-> e, p |-> phase, c |-> c, ok |-> ok]

ChainIdle ==
    /\ hop = "none"
    /\ hpc = "idle"
    /\ hphase = "chain"
    /\ hidx = 0
    /\ hRet = ChainPending
    /\ hlog = <<>>

ChainCall(op) ==
    /\ hpc = "idle"
    /\ hop' = op
    /\ hphase' = "chain"
    /\ hidx' = 1
    /\ hRet' = ChainPending
    /\ hlog' = <<>>
    /\ IF LoadsPageFirst(op)
       THEN hpc' = "load" /\ PageLoadCall
       ELSE hpc' = "resolve" /\ ResolveCall(op, "chain")

\* wait_for_page_load has returned; an exception it let through leaves the
\* operation
ChainLoaded ==
    /\ hpc = "load"
    /\ wpc = "done"
    /\ IF wRet.kind = "raise"
       THEN /\ hpc' = "done"
            /\ hRet' = ChainRaise
            /\ WaitReset
            /\ UNCHANGED now
       ELSE /\ hpc' = "resolve"
            /\ ResolveCall(hop, "chain")
            /\ UNCHANGED hRet
    /\ UNCHANGED <<hop, hphase, hidx, hlog, fvars, pvars, tvars, bvars, uvars, svars, ovars, evars, mvars, rvars, gvars, kvars, xvars>>

\* an exhausted operation that ends as if it had succeeded
ExhaustOutcomeSilent(op) == ChainFound("ok", "chain", 0)

\* an exhausted operation that returns None whichever it is
ExhaustOutcomeNone(op) == ChainNone

\* what the operation does when nothing was found: return None, or raise
ExhaustOutcome(op) == IF op = "get_search_results" THEN ChainNone ELSE ChainRaise

\* after the last candidate of the running list
ChainExhausted ==
    IF hop = "get_search_results" /\ hphase = "chain"
    THEN /\ hphase' = "indicators"
         /\ hidx' = 1
         /\ hpc' = "resolve"
         /\ ResolveCall(hop, "indicators")
         /\ UNCHANGED <<hRet, fvars>>
    ELSE IF hop = "click_search_field" /\ hphase = "chain"
    THEN /\ hphase' = "near me"
         /\ hidx' = 1
         /\ hpc' = "resolve"
         /\ ResolveCall(hop, "near me")
         /\ UNCHANGED <<hRet, fvars>>
    ELSE IF hop = "tap_hotels_tab" /\ hphase = "chain"
    THEN /\ hphase' = "js"
         /\ hidx' = 1
         /\ hpc' = "jsfind"
         /\ FindElementCall({}, FALSE)
         /\ WaitReset
         /\ UNCHANGED hRet
    ELSE /\ hpc' = "done"
         /\ hRet' = ExhaustOutcome(hop)
         /\ WaitReset
         /\ UNCHANGED <<now, hphase, hidx, fvars>>

\* a loop that passes over the candidate after the running one
NextCandidateSkips(i) == i + 2

\* `for i, locator in enumerate(...)`: the candidate after the i-th
NextCandidate(i) == i + 1

\* `continue`: the next candidate of the running list, if there is one
ChainNext(log) ==
    /\ hlog' = log
    /\ IF hidx < ChainLen(hop, hphase)
       THEN /\ hidx' = NextCandidate(hidx)
            /\ hpc' = "resolve"
            /\ ResolveCall(hop, hphase)
            /\ UNCHANGED <<hphase, hRet, fvars>>
       ELSE ChainExhausted

\* the WaitUtil call of the candidate has returned
ChainResolved ==
    /\ hpc = "resolve"
    /\ wpc = "done"
    /\ IF wRet.kind = "elem"
       THEN /\ hlog' = Append(hlog, ChainEvent("consult", hphase, hidx, TRUE))
            /\ WaitReset
            /\ IF hop = "get_search_results"
               THEN hpc' = "done" /\ hRet' = ChainFound("elem", hphase, hidx)
               ELSE hpc' = "act" /\ UNCHANGED hRet
            /\ UNCHANGED <<now, hphase, hidx, fvars>>
       ELSE IF wRet.kind = "raise" /\ hphase = "indicators"
       THEN /\ hlog' = Append(hlog, ChainEvent("consult", hphase, hidx, FALSE))
            /\ WaitReset
            /\ hpc' = "done"
            /\ hRet' = ChainNone
            /\ UNCHANGED <<now, hphase, hidx, fvars>>
       ELSE ChainNext(Append(hlog, ChainEvent("consult", hphase, hidx, FALSE)))
    /\ UNCHANGED <<hop, pvars, tvars, bvars, uvars, svars, ovars, evars, mvars, rvars, gvars, kvars, xvars>>

\* execute_script(scrollIntoView, element); sleep(1); element.click(); an
\* exception of either command is logged and the loop continues
ChainAct ==
    /\ hpc = "act"
    /\ \E clicked \in BOOLEAN :
        LET log == Append(hlog, ChainEvent("click", hphase, hidx, clicked))
        IN  IF clicked
            THEN /\ hpc' = "done"
                 /\ hRet' = ChainFound("ok", hphase, hidx)
                 /\ hlog' = log
                 /\ UNCHANGED <<now, hphase, hidx, wvars, fvars>>
            ELSE ChainNext(log)
    /\ UNCHANGED <<hop, pvars, tvars, bvars, uvars, svars, ovars, evars, mvars, rvars, gvars, kvars, xvars>>

\* tap_hotels_tab: the find_element call of wait_and_click_with_js for the
\* first locator has returned; None raises, and the exception is swallowed
ChainJsResolved ==
    /\ hpc = "jsfind"
    /\ fpc = "done"
    /\ FindTaken
    /\ hlog' = Append(hlog, ChainEvent("consult", hphase, hidx, fRet.kind = "elem"))
    /\ IF fRet.kind = "elem"
       THEN hpc' = "jsact" /\ UNCHANGED hRet
       ELSE hpc' = "done" /\ hRet' = ExhaustOutcome(hop)
    /\ UNCHANGED <<now, hop, hphase, hidx, wvars, pvars, tvars, bvars, uvars, svars, ovars, evars, mvars, rvars, gvars, kvars, xvars>>

\* execute_script("arguments[0].click();", element)
ChainJsAct ==
    /\ hpc = "jsact"
    /\ \E clicked \in BOOLEAN :
        /\ hlog' = Append(hlog, ChainEvent("js", hphase, hidx, clicked))
        /\ hRet' = IF clicked THEN ChainFound("ok", hphase, hidx) ELSE ExhaustOutcome(hop)
    /\ hpc' = "done"
    /\ UNCHANGED <<now, hop, hphase, hidx, wvars, fvars, pvars, tvars, bvars, uvars, svars, ovars, evars, mvars, rvars, gvars, kvars, xvars>>

ChainStep == ChainLoaded \/ ChainResolved \/ ChainAct \/ ChainJsResolved \/ ChainJsAct

ChainTaken ==
    /\ hpc = "done"
    /\ hop' = "none"
    /\ hpc' = "idle"
    /\ hphase' = "chain"
    /\ hidx' = 0
    /\ hRet' = ChainPending
    /\ hlog' = <<>>

-----------------------------------------------------------------------------
(* BasePage.send_text and BasePage.get_text *)

TextOps == {"send_text", "get_text"}

TextIdle == uop = "none" /\ upc = "idle" /\ uRet = "pending" /\ ulog = <<>>

\* element = self.find_element(by, locator, timeout)
TextCall(op, arg) ==
    /\ upc = "idle"
    /\ uop' = op
    /\ upc' = "find"
    /\ uRet' = "pending"
    /\ ulog' = <<>>
    /\ FindElementCall(arg, FALSE)

\* a check that lets None through to the commands
TextUnresolvedNever(ret) == FALSE

\* `if element:` fails
TextUnresolved(ret) == ret.kind # "elem"

\* find_element has returned; the handle of its element is 1, that of None 0
TextResolved ==
    /\ upc = "find"
    /\ fpc = "done"
    /\ FindTaken
    /\ ulog' = Append(ulog, Event("resolve", 0, IF fRet.kind = "elem" THEN 1 ELSE 0,
                                  TRUE, fClickable))
    /\ IF TextUnresolved(fRet)
       THEN upc' = "done" /\ uRet' = "raise"
       ELSE /\ upc' = IF uop = "send_text" THEN "clear" ELSE "read"
            /\ UNCHANGED uRet
    /\ UNCHANGED <<now, uop, wvars, pvars, tvars, hvars, bvars, svars, ovars, evars, mvars, rvars, gvars, kvars, xvars>>

\* the element the commands are issued on
TextElement == ulog[1].h

\* a send_text that goes on to send_keys after clear() raised
AfterClearGoesOn(ok) == "send"

\* after element.clear(): send_keys, unless clear raised
AfterClear(ok) == IF ok THEN "send" ELSE "done"

\* element.clear()
TextClear ==
    /\ upc = "clear"
    /\ \E ok \in BOOLEAN :
        /\ ulog' = Append(ulog, Event("clear", 0, TextElement, ok, FALSE))
        /\ upc' = AfterClear(ok)
        /\ uRet' = IF upc' = "done" THEN "raise" ELSE uRet
    /\ UNCHANGED <<now, uop, wvars, fvars, pvars, tvars, hvars, bvars, svars, ovars, evars, mvars, rvars, gvars, kvars, xvars>>

\* element.send_keys(text)
TextSendKeys ==
    /\ upc = "send"
    /\ \E ok \in BOOLEAN :
        /\ ulog' = Append(ulog, Event("send_keys", 0, TextElement, ok, FALSE))
        /\ uRet' = IF ok THEN "ok" ELSE "raise"
    /\ upc' = "done"
    /\ UNCHANGED <<now, uop, wvars, fvars, pvars, tvars, hvars, bvars, svars, ovars, evars, mvars, rvars, gvars, kvars, xvars>>

\* return element.text
TextRead ==
    /\ upc = "read"
    /\ \E ok \in BOOLEAN :
        /\ ulog' = Append(ulog, Event("text", 0, TextElement, ok, FALSE))
        /\ uRet' = IF ok THEN "ok" ELSE "raise"
    /\ upc' = "done"
    /\ UNCHANGED <<now, uop, wvars, fvars, pvars, tvars, hvars, bvars, svars, ovars, evars, mvars, rvars, gvars, kvars, xvars>>

TextStep == TextResolved \/ TextClear \/ TextSendKeys \/ TextRead

TextTaken ==
    /\ upc = "done"
    /\ uop' = "none"
    /\ upc' = "idle"
    /\ uRet' = "pending"
    /\ ulog' = <<>>

-----------------------------------------------------------------------------
(* BasePage.scroll_to_element and BasePage.swipe *)

\* timeout of the resolve attempt of an iteration (seconds)
ScrollTimeout == 2

ScrollIdle ==
    spc = "idle" /\ max_scrolls = 0 /\ scrolls = 0 /\ sRet = "pending" /\ slog = <<>>

\* an entry of slog: e is "resolve" (the find_element call of iteration i
\* returned; ok says it returned an element) or "swipe" (the swipe of
\* iteration i; ok says it did not raise)
ScrollEvent(e, i, ok) == [e |-> e, i |-> i, ok |-> ok]

\* for i in range(max_scrolls): element = self.find_element(by, locator, timeout=2)
ScrollCall(n) ==
    /\ spc = "idle"
    /\ max_scrolls' = n
    /\ scrolls' = 0
    /\ slog' = <<>>
    /\ IF n > 0
       THEN spc' = "find" /\ sRet' = "pending" /\ FindElementCall({ScrollTimeout}, FALSE)
       ELSE spc' = "done" /\ sRet' = "none" /\ UNCHANGED <<now, fvars>>

\* find_element has returned: `if element: return element`
ScrollResolved ==
    /\ spc = "find"
    /\ fpc = "done"
    /\ FindTaken
    /\ slog' = Append(slog, ScrollEvent("resolve", scrolls, fRet.kind = "elem"))
    /\ IF fRet.kind = "elem"
       THEN spc' = "done" /\ sRet' = "elem"
       ELSE spc' = "swipe" /\ UNCHANGED sRet
    /\ UNCHANGED <<now, max_scrolls, scrolls, wvars, pvars, tvars, hvars, bvars, uvars, ovars, evars, mvars, rvars, gvars, kvars, xvars>>

\* self.swipe(500, 1500, 500, 500): driver.swipe; swipe logs an exception
\* and raises it again, and scroll_to_element does not catch it
ScrollSwipe ==
    /\ spc = "swipe"
    /\ \E ok \in BOOLEAN :
        /\ slog' = Append(slog, ScrollEvent("swipe", scrolls, ok))
        /\ IF ~ok
           THEN spc' = "done" /\ sRet' = "raise" /\ UNCHANGED <<now, scrolls, fvars>>
           ELSE IF scrolls + 1 < max_scrolls
           THEN /\ scrolls' = scrolls + 1
                /\ spc' = "find"
                /\ FindElementCall({ScrollTimeout}, FALSE)
                /\ UNCHANGED sRet
           ELSE spc' = "done" /\ sRet' = "none" /\ UNCHANGED <<now, scrolls, fvars>>
    /\ UNCHANGED <<max_scrolls, wvars, pvars, tvars, hvars, bvars, uvars, ovars, evars, mvars, rvars, gvars, kvars, xvars>>

ScrollStep == ScrollResolved \/ ScrollSwipe

ScrollTaken ==
    /\ spc = "done"
    /\ spc' = "idle"
    /\ max_scrolls' = 0
    /\ scrolls' = 0
    /\ sRet' = "pending"
    /\ slog' = <<>>

-----------------------------------------------------------------------------
(* The optional flows of HomePage and SearchPage *)

OptionalOps ==
    {"close_login_popup", "close_popup", "select_first_suggestion", "enter_search_text",
     "select_tomorrow_date"}

\* len(close_locators) of close_login_popup
CloseLocators == 4
\* len(popup_locators) of close_popup
PopupLocators == 7
\* len(suggestion_locators) of select_first_suggestion
SuggestionLocators == 8
\* len(input_locators) of enter_search_text
InputLocators == 9
\* timeout of a candidate of close_login_popup, close_popup and
\* select_first_suggestion (seconds)
CloseTimeout == 5
\* timeout of a candidate of enter_search_text (seconds)
InputTimeout == 8
\* len(date_locators) of select_tomorrow_date
DateLocators == 4
\* timeout of a candidate of select_tomorrow_date (seconds)
DateTimeout == 15

OptionalLen(op) ==
    CASE op = "close_login_popup" -> CloseLocators
      [] op = "close_popup" -> PopupLocators
      [] op = "select_first_suggestion" -> SuggestionLocators
      [] op = "enter_search_text" -> InputLocators
      [] op = "select_tomorrow_date" -> DateLocators

\* the WaitUtil call made for a candidate
OptionalResolveCall(op) ==
    CASE op = "select_first_suggestion" -> WaitForClickableCall(CloseTimeout)
      [] op = "enter_search_text" -> WaitForElementCall(InputTimeout)
      [] op = "select_tomorrow_date" -> WaitForClickableCall(DateTimeout)
      [] OTHER -> WaitForElementCall(CloseTimeout)

\* the flows that try something else after their candidates
HasFallback(op) == op \in {"select_first_suggestion", "enter_search_text"}

\* an entry of oCmds: the command e ("click", "clear", "send_keys", "enter")
\* was issued on an element; ok says it did not raise
OptionalCmd(e, ok) == [e |-> e, ok |-> ok]

OptionalIdle ==
    /\ oop = "none"
    /\ opc = "idle"
    /\ oidx = 0
    /\ oRet = "pending"
    /\ oFound = FALSE
    /\ oCmds = {}
    /\ oClicks = 0

\* close_popup calls self.wait_for_page_load() first
OptionalCall(op) ==
    /\ opc = "idle"
    /\ oop' = op
    /\ oidx' = 1
    /\ oRet' = "pending"
    /\ oFound' = FALSE
    /\ oCmds' = {}
    /\ oClicks' = 0
    /\ IF op = "close_popup"
       THEN opc' = "load" /\ PageLoadCall
       ELSE opc' = "resolve" /\ OptionalResolveCall(op)

\* wait_for_page_load has returned; an exception it let through leaves
\* close_popup
OptionalLoaded ==
    /\ opc = "load"
    /\ wpc = "done"
    /\ IF wRet.kind = "raise"
       THEN /\ opc' = "done"
            /\ oRet' = "raise"
            /\ WaitReset
            /\ UNCHANGED now
       ELSE /\ opc' = "resolve"
            /\ OptionalResolveCall(oop)
            /\ UNCHANGED oRet
    /\ UNCHANGED <<oop, oidx, oFound, oCmds, oClicks, fvars, pvars, tvars, hvars, bvars, uvars, svars, evars, mvars, rvars, gvars, kvars, xvars>>

\* a flow that raises when none of its candidates worked
ExhaustedOptionalRaises(op) == "raise"

\* a flow whose candidates (and fallback) are exhausted logs it and returns
ExhaustedOptional(op) == "ok"

\* `continue`: the next candidate, then the fallback, then the return
OptionalNext ==
    IF oidx < OptionalLen(oop)
    THEN /\ oidx' = oidx + 1
         /\ opc' = "resolve"
         /\ OptionalResolveCall(oop)
         /\ UNCHANGED oRet
    ELSE /\ WaitReset
         /\ UNCHANGED <<now, oidx>>
         /\ IF HasFallback(oop)
            THEN opc' = "fallback" /\ UNCHANGED oRet
            ELSE opc' = "done" /\ oRet' = ExhaustedOptional(oop)

\* the WaitUtil call of the candidate has returned
OptionalResolved ==
    /\ opc = "resolve"
    /\ wpc = "done"
    /\ IF wRet.kind = "elem"
       THEN /\ oFound' = TRUE
            /\ opc' = "act"
            /\ WaitReset
            /\ UNCHANGED <<now, oidx, oRet>>
       ELSE OptionalNext /\ UNCHANGED oFound
    /\ UNCHANGED <<oop, oCmds, oClicks, fvars, pvars, tvars, hvars, bvars, uvars, svars, evars, mvars, rvars, gvars, kvars, xvars>>

\* a loop that goes on to the next candidate whatever the command did
ReturnsNever(outcome) == FALSE

\* the `return` that follows the command of a candidate: reached when the
\* command did not raise
Returns(outcome) == outcome \in {"sent", "clicked"}

\* what the flow does with the element of a candidate.  enter_search_text:
\* `if search_input.is_displayed() and search_input.is_enabled()`, then
\* clear() and send_keys(text); "skip" is a check that is false or raises.
\* The other flows: click().  An exception goes on to the next candidate.
OptionalAct ==
    /\ opc = "act"
    /\ \E outcome \in IF oop = "enter_search_text"
                       THEN {"skip", "clear raises", "send_keys raises", "sent"}
                       ELSE {"click raises", "clicked"} :
        /\ oCmds' = oCmds \cup
            CASE outcome = "skip" -> {}
              [] outcome = "clear raises" -> {OptionalCmd("clear", FALSE)}
              [] outcome = "send_keys raises" ->
                    {OptionalCmd("clear", TRUE), OptionalCmd("send_keys", FALSE)}
              [] outcome = "sent" ->
                    {OptionalCmd("clear", TRUE), OptionalCmd("send_keys", TRUE)}
              [] outcome = "click raises" -> {OptionalCmd("click", FALSE)}
              [] outcome = "clicked" -> {OptionalCmd("click", TRUE)}
        /\ oClicks' = IF outcome = "clicked" THEN oClicks + 1 ELSE oClicks
        /\ IF Returns(outcome)
           THEN /\ opc' = "done"
                /\ oRet' = "ok"
                /\ UNCHANGED <<now, oidx, wvars>>
           ELSE OptionalNext
    /\ UNCHANGED <<oop, oFound, fvars, pvars, tvars, hvars, bvars, uvars, svars, evars, mvars, rvars, gvars, kvars, xvars>>

\* select_first_suggestion: inputs = driver.find_elements(...); if inputs:
\* inputs[0].send_keys(Keys.ENTER).  enter_search_text: driver.current_url.
\* Both sit in a try block whose bare except passes.
OptionalFallback ==
    /\ opc = "fallback"
    /\ \E outcome \in IF oop = "select_first_suggestion"
                       THEN {"none", "enter raises", "entered"}
                       ELSE {"none"} :
        /\ oFound' = (oFound \/ outcome # "none")
        /\ oCmds' = oCmds \cup
            CASE outcome = "none" -> {}
              [] outcome = "enter raises" -> {OptionalCmd("enter", FALSE)}
              [] outcome = "entered" -> {OptionalCmd("enter", TRUE)}
    /\ opc' = "done"
    /\ oRet' = ExhaustedOptional(oop)
    /\ UNCHANGED <<now, oop, oidx, oClicks, wvars, fvars, pvars, tvars, hvars, bvars, uvars, svars, evars, mvars, rvars, gvars, kvars, xvars>>

OptionalStep == OptionalLoaded \/ OptionalResolved \/ OptionalAct \/ OptionalFallback

OptionalTaken ==
    /\ opc = "done"
    /\ oop' = "none"
    /\ opc' = "idle"
    /\ oidx' = 0
    /\ oRet' = "pending"
    /\ oFound' = FALSE
    /\ oCmds' = {}
    /\ oClicks' = 0

-----------------------------------------------------------------------------
(* DriverManager *)

\* a new DriverManager(server_url): self._driver = None.  A session is live
\* from its creation until quit() has been issued on it.
ManagerIdle ==
    /\ _driver = 0
    /\ sessions = 0
    /\ live = {}
    /\ mRet = "none"
    /\ mlog = <<>>
    /\ mOps = <<>>

Command(cmd, session, ok) == [cmd |-> cmd, session |-> session, ok |-> ok]

\* a driver command either returns or raises
Raises == BOOLEAN

\* an entry of mOps: operation op ended as ret ("ok" or "raise") after
\* issuing cmds session commands, and get_driver() then returns held
Called(op, ret, cmds, held) == [op |-> op, ret |-> ret, cmds |-> cmds, held |-> held]

\* a quit_driver without its `if self._driver` test
QuitsUnguarded(d) == {d}

\* quit_driver: the sessions it issues quit() on: if self._driver: self._driver.quit()
Quits(d) == IF d = 0 THEN {} ELSE {d}

\* a quit_driver without its `self._driver = None`
AfterQuitKept(d, raised) == d

\* self._driver after quit_driver: None, unless quit() raised
AfterQuit(d, raised) == IF raised /\ Quits(d) # {} THEN d ELSE 0

\* the log after quit_driver
QuitLog(log, d, raised) ==
    IF Quits(d) = {} THEN log ELSE Append(log, Command("quit", d, ~raised))

\* quit_driver raises iff quit() was issued and raised
QuitRaised(d, raised) == raised /\ Quits(d) # {}

\* DriverManager.quit_driver()
QuitDriver ==
    \E raised \in Raises :
        /\ live' = live \ Quits(_driver)
        /\ _driver' = AfterQuit(_driver, raised)
        /\ mlog' = QuitLog(mlog, _driver, raised)
        /\ mRet' = IF QuitRaised(_driver, raised) THEN "raise" ELSE "ok"
        /\ mOps' = Append(mOps, Called("quit_driver", mRet', Len(mlog') - Len(mlog),
                                       _driver'))
        /\ UNCHANGED sessions

\* a create_driver that does not quit the driver it replaces
ReplacedKept(d) == {}

\* create_driver: self.quit_driver() comes first
Replaced(d) == Quits(d)

\* DriverManager.create_driver(capabilities): quit_driver(), then
\* webdriver.Remote(...), which creates the session or raises
CreateDriver ==
    \E quitRaised \in Raises, newRaised \in Raises :
        /\ LET old == Replaced(_driver)
               quitLog == IF old = {} THEN mlog
                          ELSE Append(mlog, Command("quit", _driver, ~quitRaised))
           IN  IF quitRaised /\ old # {}
               THEN /\ live' = live \ old
                    /\ mlog' = quitLog
                    /\ mRet' = "raise"
                    /\ UNCHANGED <<_driver, sessions>>
               ELSE IF newRaised
               THEN /\ live' = live \ old
                    /\ _driver' = IF old = {} THEN _driver ELSE 0
                    /\ mlog' = Append(quitLog, Command("new", 0, FALSE))
                    /\ mRet' = "raise"
                    /\ UNCHANGED sessions
               ELSE /\ sessions' = sessions + 1
                    /\ live' = (live \ old) \cup {sessions + 1}
                    /\ _driver' = sessions + 1
                    /\ mlog' = Append(quitLog, Command("new", sessions + 1, TRUE))
                    /\ mRet' = "ok"
        /\ mOps' = Append(mOps, Called("create_driver", mRet', Len(mlog') - Len(mlog),
                                       _driver'))

-----------------------------------------------------------------------------
(* The test run: the driver fixture and the report hook of conftest.py.  *)
(* pytest runs, for each test, the fixture up to its yield (setup), the    *)
(* test (call) and the rest of the fixture (teardown), and calls the       *)
(* report hook after each phase; an exception of the hook ends the run,    *)
(* which still finishes the fixtures.                                      *)

\* a value config.get hands back for a setting: None when the key is
\* missing, else the configured string, which may be empty
Settings == {"None", "", "set"}

\* getattr(request, 'param', None): None, or the parameter of the test
Params == {"None", "set"}

\* Python's `not v` on None or a string
Not(v) == v \in {"None", ""}

\* Python's `a or b`
Or(a, b) == IF Not(a) THEN b ELSE a

\* a fixture that tests the server URL only
MissingUrlOnly(url, param, file) == Not(url)

\* `if not server_url` and `if not capabilities_file`, where
\* capabilities_file = getattr(request, 'param', None) or config.get(...)
MissingSetting(url, param, file) == Not(url) \/ Not(Or(param, file))

\* what the fixture raises before create_driver: ConfigReader() cannot read
\* its file, a setting is missing, or load_capabilities_from_yaml raises
SetupRaises(readable, url, param, file, loads) ==
    IF ~readable THEN "OSError"
    ELSE IF MissingSetting(url, param, file) THEN "ValueError"
    ELSE IF ~loads THEN "FileNotFoundError"
    ELSE "none"

\* the value of setup: the settings read (all "unread" when the
\* configuration could not be read), what was raised before create_driver,
\* and the number of session commands issued before the fixture ran
Setup(readable, url, param, file, raised, base) ==
    [server_url |-> IF readable THEN url ELSE "unread",
     param |-> IF readable THEN param ELSE "unread",
     file |-> IF readable THEN file ELSE "unread",
     raised |-> raised, base |-> base]

NoSetup == Setup(FALSE, "None", "None", "None", "none", 0)

RunIdle ==
    /\ rpc = "idle"
    /\ when = "none"
    /\ failed = FALSE
    /\ funcargs = 0
    /\ tests = 0
    /\ callOutcome = "none"
    /\ shots = {}
    /\ setup = NoSetup

\* how a test function ends: it returns, fails an assertion or raises
CallOutcomes == {"passed", "failed", "error"}

\* the next test begins: the fixture will build a new DriverManager
StartTest ==
    /\ rpc = "idle"
    /\ rpc' = "setup"
    /\ tests' = tests + 1
    /\ when' = "none"
    /\ failed' = FALSE
    /\ funcargs' = 0
    /\ callOutcome' = "none"
    /\ _driver' = 0
    /\ mRet' = "none"
    /\ setup' = NoSetup
    /\ UNCHANGED <<sessions, live, mlog, mOps, shots>>

\* the driver fixture up to `yield drv`: ConfigReader(), the two settings,
\* DriverManager(server_url), load_capabilities_from_yaml, create_driver
FixtureSetup ==
    /\ rpc = "setup"
    /\ rpc' = "report"
    /\ when' = "setup"
    /\ \E readable \in BOOLEAN, url \in Settings, param \in Params, file \in Settings,
          loads \in BOOLEAN :
        LET raised == SetupRaises(readable, url, param, file, loads)
        IN  /\ setup' = Setup(readable, url, param, file, raised, Len(mlog))
            /\ IF raised = "none"
               THEN /\ CreateDriver
                    /\ failed' = (mRet' = "raise")
                    /\ funcargs' = IF mRet' = "raise" THEN 0 ELSE _driver'
               ELSE /\ failed' = TRUE
                    /\ UNCHANGED <<funcargs, mvars>>
    /\ UNCHANGED <<tests, callOutcome, shots>>

\* the test function runs with the session the fixture yielded
TestCall ==
    /\ rpc = "call"
    /\ rpc' = "report"
    /\ when' = "call"
    /\ \E outcome \in CallOutcomes :
        /\ callOutcome' = outcome
        /\ failed' = (outcome # "passed")
    /\ UNCHANGED <<funcargs, tests, shots, setup, mvars>>

\* a teardown that runs only for a test that passed
FinalizedOnPass(drv, outcome) == drv # 0 /\ outcome = "passed"

\* the fixture is finalized (the code after its yield runs) iff its setup
\* reached the yield
Finalized(drv, outcome) == drv # 0

\* the driver fixture after its yield: manager.quit_driver()
FixtureTeardown ==
    /\ rpc = "teardown"
    /\ rpc' = "report"
    /\ when' = "teardown"
    /\ IF Finalized(funcargs, callOutcome)
       THEN QuitDriver /\ failed' = (mRet' = "raise")
       ELSE failed' = FALSE /\ UNCHANGED mvars
    /\ UNCHANGED <<funcargs, tests, callOutcome, shots, setup>>

\* a hook that takes the screenshot after any failed phase
WantedWhenever(phase, fail) == fail

\* rep.when == 'call' and rep.failed
Wanted(phase, fail) == phase = "call" /\ fail

\* the phase that follows a report
AfterReport(phase, fail) ==
    CASE phase = "setup" -> IF fail THEN "teardown" ELSE "call"
      [] phase = "call" -> "teardown"
      [] OTHER -> "idle"

\* an entry of shots: save_screenshot was issued on `session` for test n
Shot(n, session, outcome) ==
    [test |-> n, session |-> session, live |-> session \in live,
     when |-> when, call |-> outcome]

\* pytest_runtest_makereport: after a failed call phase of a test that has
\* a driver, driver.save_screenshot(path), which may raise
MakeReport ==
    /\ rpc = "report"
    /\ IF Wanted(when, failed) /\ funcargs # 0
       THEN /\ shots' = shots \cup {Shot(tests, funcargs, callOutcome)}
            /\ \E raised \in Raises :
                rpc' = IF raised THEN "finish" ELSE AfterReport(when, failed)
       ELSE /\ rpc' = AfterReport(when, failed)
            /\ UNCHANGED shots
    /\ UNCHANGED <<when, failed, funcargs, tests, callOutcome, setup, mvars>>

\* the run ends on the hook's exception: the fixtures are still finalized
SessionFinish ==
    /\ rpc = "finish"
    /\ rpc' = "ended"
    /\ IF Finalized(funcargs, callOutcome)
       THEN QuitDriver
       ELSE UNCHANGED mvars
    /\ UNCHANGED <<when, failed, funcargs, tests, callOutcome, shots, setup>>

-----------------------------------------------------------------------------
(* ConfigReader.get *)

\* A YAML value: a mapping (dict) from keys to values, or something that is
\* not a mapping: None, or a scalar
NoneValue == [type |-> "none", items |-> <<>>, v |-> ""]
Scalar(x) == [type |-> "str", items |-> <<>>, v |-> x]
Dict(f) == [type |-> "dict", items |-> f, v |-> ""]

\* isinstance(data, dict)
IsDict(data) == data.type = "dict"

\* an outcome of get: it returned the value v, or raised
Returned(v) == [kind |-> "return", v |-> v]
GetRaised == [kind |-> "raise", v |-> NoneValue]
GetPending == [kind |-> "pending", v |-> NoneValue]

GetIdle ==
    /\ config = NoneValue
    /\ keys = <<>>
    /\ default = NoneValue
    /\ gRet = GetPending

\* a lookup without the isinstance test: `key in data` raises on a value
\* that is not a mapping
LookupUnchecked(data, key) ==
    IF ~IsDict(data) THEN "raise"
    ELSE IF key \in DOMAIN data.items THEN "descend" ELSE "default"

\* if isinstance(data, dict) and key in data
Lookup(data, key) ==
    IF IsDict(data) /\ key \in DOMAIN data.items THEN "descend" ELSE "default"

\* the loop `for key in keys` from its i-th key on, data being the value
\* reached so far
RECURSIVE GetFrom(_, _, _, _)
GetFrom(data, ks, i, dflt) ==
    IF i > Len(ks) THEN Returned(data)
    ELSE CASE Lookup(data, ks[i]) = "descend" ->
                GetFrom(data.items[ks[i]], ks, i + 1, dflt)
           [] Lookup(data, ks[i]) = "default" -> Returned(dflt)
           [] OTHER -> GetRaised

\* ConfigReader.get(*keys, default=default)
Get ==
    /\ gRet = GetPending
    /\ gRet' = GetFrom(config, keys, 1, default)
    /\ UNCHANGED <<config, keys, default>>

-----------------------------------------------------------------------------
(* test_bangalore_hotel_search_realistic.  The test is modelled against   *)
(* any page object: each call it makes either returns or raises.          *)

FlowIdle ==
    /\ flowpc = "idle"
    /\ indicator = 0
    /\ flowlog = <<>>
    /\ flowRet = "pending"

\* the calls of the test body, in the order of its text
FlowCalls ==
    <<"get", "wait_for_page_load", "close_login_popup", "tap_hotels_tab",
      "click_search_field", "enter_search_text", "select_first_suggestion",
      "select_tomorrow_date", "tap_search_button", "close_popup",
      "current_url", "title", "get_search_results", "find_elements">>

\* len(result_indicators)
ResultIndicators == 5

\* the call that follows call c in the text
Following(c) ==
    LET i == CHOOSE j \in DOMAIN FlowCalls : FlowCalls[j] = c
    IN  IF i = Len(FlowCalls) THEN "done" ELSE FlowCalls[i + 1]

\* a test whose inner try blocks guard only the popup of the results page
CaughtPopupOnly(c) == c = "close_popup"

\* the calls made inside a try block of the test that catches the
\* exception and goes on
Caught(c) ==
    c \in {"click_search_field", "enter_search_text", "select_first_suggestion",
           "select_tomorrow_date", "close_popup", "get_search_results",
           "find_elements"}

\* where the test goes on after the exception of a call that is caught: the
\* statement after the try block (the next indicator for get_search_results)
Resume(c) ==
    CASE c \in {"click_search_field", "enter_search_text", "select_first_suggestion"}
            -> "select_tomorrow_date"
      [] c = "get_search_results" -> "get_search_results"
      [] OTHER -> Following(c)

\* how a call of the test can end: it returns or raises; the two assertions
\* can fail ("unmet"); get_search_results and find_elements can return
\* nothing ("empty")
Endings(c) ==
    CASE c \in {"current_url", "title"} -> {"ok", "raise", "unmet"}
      [] c \in {"get_search_results", "find_elements"} -> {"ok", "raise", "empty"}
      [] OTHER -> {"ok", "raise"}

Call(c, how) == [op |-> c, how |-> how]

FlowCall ==
    /\ flowpc = "idle"
    /\ flowpc' = FlowCalls[1]
    /\ indicator' = 0
    /\ flowlog' = <<>>
    /\ flowRet' = "pending"

\* the test makes the call it is at.  An exception that no inner try block
\* catches, and a failed assertion, reach the outer except, which logs,
\* takes a screenshot and raises again.  The loop over result_indicators
\* ends at the first result; after it, and after find_elements, the test
\* returns True, both assertions having held.
FlowStep ==
    /\ flowpc \notin {"idle", "done"}
    /\ \E how \in Endings(flowpc) :
        /\ flowlog' = Append(flowlog, Call(flowpc, how))
        /\ IF how = "unmet" \/ (how = "raise" /\ ~Caught(flowpc))
           THEN /\ flowpc' = "done"
                /\ flowRet' = "failed"
                /\ UNCHANGED indicator
           ELSE IF flowpc = "get_search_results"
           THEN IF how = "ok"
                THEN /\ flowpc' = "done"
                     /\ flowRet' = "passed"
                     /\ indicator' = indicator + 1
                ELSE /\ indicator' = indicator + 1
                     /\ flowpc' = IF indicator + 1 < ResultIndicators
                                  THEN "get_search_results"
                                  ELSE "find_elements"
                     /\ UNCHANGED flowRet
           ELSE LET next == IF how = "raise" THEN Resume(flowpc) ELSE Following(flowpc)
                IN  /\ flowpc' = next
                    /\ flowRet' = IF next = "done" THEN "passed" ELSE flowRet
                    /\ UNCHANGED indicator

FlowTaken ==
    /\ flowpc = "done"
    /\ flowpc' = "idle"
    /\ indicator' = 0
    /\ flowlog' = <<>>
    /\ flowRet' = "pending"

-----------------------------------------------------------------------------
(* BasePage.__init__ and BasePage._ensure_web_context *)

\* context names, as the words they are made of
NativeApp == <<"NATIVE", "_", "APP">>
ContextNames ==
    {NativeApp, <<"WEBVIEW", "_", "chrome">>, <<"WEBVIEW", "_", "app">>, <<"CHROMIUM">>,
     <<"webview">>}

ContextIdle ==
    /\ contexts = <<>>
    /\ current_context = NativeApp
    /\ xpc = "idle"
    /\ xRet = "pending"
    /\ xlog = <<>>

\* 'WEBVIEW' in context or 'CHROMIUM' in context
IsWebContext(context) ==
    \E i \in DOMAIN context : context[i] \in {"WEBVIEW", "CHROMIUM"}

\* web_context of a loop that has no break: the last match
LastWebContext(list) ==
    LET hits == {i \in DOMAIN list : IsWebContext(list[i])}
    IN  IF hits = {} THEN <<>> ELSE list[CHOOSE i \in hits : \A j \in hits : j <= i]

\* web_context after the loop: the first match of the list, <<>> for None
FirstWebContext(list) ==
    LET hits == {i \in DOMAIN list : IsWebContext(list[i])}
    IN  IF hits = {} THEN <<>> ELSE list[CHOOSE i \in hits : \A j \in hits : i <= j]

\* an entry of xlog: the command, its argument (<<>> if none), the current
\* context when it was issued, and whether it returned
ContextCommand(cmd, arg, ok) ==
    [cmd |-> cmd, arg |-> arg, from |-> current_context, ok |-> ok]

\* the commands _ensure_web_context issues when the command failAt (if it
\* is issued) raises: driver.contexts; if web_context is not None,
\* driver.current_context; if that differs, driver.switch_to.context
ContextCommands(failAt) ==
    LET web == FirstWebContext(contexts)
        c1 == <<ContextCommand("contexts", <<>>, failAt # "contexts")>>
        c2 == IF c1[1].ok /\ web # <<>>
              THEN <<ContextCommand("current_context", <<>>, failAt # "current_context")>>
              ELSE <<>>
        c3 == IF c2 # <<>> /\ c2[1].ok /\ current_context # web
              THEN <<ContextCommand("switch", web, failAt # "switch")>>
              ELSE <<>>
    IN  c1 \o c2 \o c3

\* BasePage(driver): __init__ stores its arguments and calls
\* _ensure_web_context, whose try block swallows every exception
Construct ==
    /\ xpc = "idle"
    /\ xpc' = "done"
    /\ \E failAt \in {"none", "contexts", "current_context", "switch"} :
        /\ xlog' = ContextCommands(failAt)
        /\ current_context' =
            IF \E i \in DOMAIN xlog' : xlog'[i].cmd = "switch" /\ xlog'[i].ok
            THEN FirstWebContext(contexts)
            ELSE current_context
    /\ xRet' = "ok"
    /\ UNCHANGED contexts

-----------------------------------------------------------------------------
(* A test calling the resolution operations directly *)

vars == <<now, wvars, fvars, cvars>>

\* no page operation of the later sections is running
PageIdle ==
    /\ TextIdle /\ ScrollIdle /\ OptionalIdle /\ readyAt = NoScene
    /\ ManagerIdle /\ RunIdle /\ ContextIdle

InitResolve ==
    /\ now = 0 /\ WaitIdle /\ FindIdle /\ PresentIdle /\ TapIdle /\ ChainIdle /\ ByIdle
    /\ PageIdle /\ GetIdle /\ FlowIdle

TopIdle ==
    /\ wpc = "idle" /\ fpc = "idle" /\ ppc = "idle" /\ tpc = "idle" /\ hpc = "idle"
    /\ upc = "idle" /\ spc = "idle" /\ opc = "idle"

CallWaitForElement ==
    /\ TopIdle
    /\ \E t \in Timeouts : WaitForElementCall(t)
    /\ UNCHANGED <<fvars, cvars>>

CallWaitForClickable ==
    /\ TopIdle
    /\ \E t \in Timeouts : WaitForClickableCall(t)
    /\ UNCHANGED <<fvars, cvars>>

ReturnWait == hpc = "idle" /\ WaitTaken /\ now' = 0 /\ UNCHANGED <<fvars, cvars>>

CallFindElement ==
    /\ TopIdle
    /\ \E arg \in OptTimeouts, clickable \in BOOLEAN : FindElementCall(arg, clickable)
    /\ UNCHANGED <<wvars, cvars>>

ReturnFind ==
    /\ ppc = "idle"
    /\ tpc = "idle"
    /\ hpc = "idle"
    /\ FindTaken
    /\ now' = 0
    /\ UNCHANGED <<wvars, cvars>>

NextResolve ==
    \/ CallWaitForElement
    \/ CallWaitForClickable
    \/ WaitForElementStep
    \/ ClickablePoll
    \/ ReturnWait
    \/ CallFindElement
    \/ FindElementStep
    \/ ReturnFind
    \/ IsElementPresentCall
    \/ IsElementPresentReturn
    \/ IsElementPresentTaken

SpecResolve == InitResolve /\ [][NextResolve]_vars

-----------------------------------------------------------------------------
(* A test calling BasePage.tap_element *)

\* the timeout arguments the test passes to tap_element
TapTimeouts == {{}, {0}, {MaxTimeout}}

CallTapElement ==
    /\ TopIdle
    /\ \E arg \in TapTimeouts : TapElementCall(arg)
    /\ UNCHANGED <<wvars, pvars, hvars, bvars, uvars, svars, ovars, evars, mvars, rvars, gvars, kvars, xvars>>

ReturnTap == TapTaken /\ now' = 0 /\ UNCHANGED <<wvars, fvars, pvars, hvars, bvars, uvars, svars, ovars, evars, mvars, rvars, gvars, kvars, xvars>>

NextTap == CallTapElement \/ FindElementStep \/ TapElementStep \/ ReturnTap

SpecTap == InitResolve /\ [][NextTap]_vars

-----------------------------------------------------------------------------
(* A test calling the candidate-locator operations *)

CallChain ==
    /\ TopIdle
    /\ \E op \in ChainOps : ChainCall(op)
    /\ UNCHANGED <<fvars, pvars, tvars, bvars, uvars, svars, ovars, evars, mvars, rvars, gvars, kvars, xvars>>

ReturnChain == ChainTaken /\ now' = 0 /\ UNCHANGED <<wvars, fvars, pvars, tvars, bvars, uvars, svars, ovars, evars, mvars, rvars, gvars, kvars, xvars>>

NextChain ==
    \/ CallChain
    \/ PageLoadPoll
    \/ WaitForElementStep
    \/ ClickablePoll
    \/ FindElementStep
    \/ ChainStep
    \/ ReturnChain

SpecChain == InitResolve /\ [][NextChain]_vars

-----------------------------------------------------------------------------
(* Properties of the resolution operations *)

\* C1: a visible-mode resolution (wait_for_element, find_element without
\* wait_for_clickable) never returns an element whose displayed flag was
\* false at the check that accepted it, whichever stage produced it.
C1_VisibleOnlyReturnsDisplayed ==
    /\ (wFn = "wait_for_element" /\ wRet.kind = "elem") => Displayed(wRet.seen)
    /\ (fpc = "done" /\ ~fClickable /\ fRet.kind = "elem") => Displayed(fRet.seen)

\* an element accepted by the presence stage of wait_for_element after the
\* visibility wait had timed out
C1_Witness ==
    /\ wFn = "wait_for_element"
    /\ wpc = "done"
    /\ wRet = Elem(2, "disabled")

\* the budget of a stage of wait_for_element, in ticks
StageBudget(n, timeout) ==
    CASE n = 1 -> Ticks(timeout)
      [] n = 2 -> Ticks(PresenceBudget)
      [] n = 3 -> Ticks(IF timeout < ManualCap THEN timeout ELSE ManualCap)

Exhausted(e) == e.stop - e.start >= StageBudget(e.stage, wTimeout)

\* the stages run in the order 1, 2, 3, each starting when the preceding one
\* ended without a visible element
StagesInOrder ==
    /\ \A i \in 1..Len(wLog) :
        /\ wLog[i].stage = i
        /\ i > 1 => /\ wLog[i].start = wLog[i-1].stop
                    /\ wLog[i-1].how \in {"timeout", "hidden"}
    /\ wpc = "s1" => Len(wLog) = 0
    /\ wpc = "s2" => Len(wLog) = 1
    /\ wpc = "s3" => Len(wLog) = 2

\* C2 as stated: wait_for_element runs its three stages strictly in order
\* and returns None only after all three stages have exhausted their budgets.
C2_NoneOnlyAfterAllBudgets ==
    wFn = "wait_for_element" =>
        /\ StagesInOrder
        /\ wRet.kind = "none" =>
            /\ Len(wLog) = 3
            /\ \A i \in 1..3 : Exhausted(wLog[i])

\* C2 amended: the stages run strictly in order, and None is returned only
\* after the visibility wait and the manual polling have exhausted their
\* budgets and the presence wait has either exhausted its budget or ended
\* early on an element that was present but not displayed.
C2_NoneOnlyAfterStages ==
    wFn = "wait_for_element" =>
        /\ StagesInOrder
        /\ wRet.kind = "none" =>
            /\ Len(wLog) = 3
            /\ Exhausted(wLog[1])
            /\ Exhausted(wLog[2]) \/ wLog[2].how = "hidden"
            /\ Exhausted(wLog[3])

\* None returned after three full stages with the default timeout
C2_Witness ==
    /\ wFn = "wait_for_element"
    /\ wpc = "done"
    /\ wRet.kind = "none"
    /\ wTimeout = DefaultTimeout
    /\ \A i \in 1..3 : wLog[i].how = "timeout"

\* C7: is_element_present never raises, whatever the driver raises; it
\* returns a boolean, True exactly when find_element returned an element.
C7_IsPresentNeverRaises ==
    ppc = "done" =>
        /\ pRet \in {"true", "false"}
        /\ pRet = "true" <=> pFound.kind = "elem"

\* False returned after a driver error in the last-resort block
C7_Witness ==
    /\ ppc = "done"
    /\ pRet = "false"
    /\ pFound.seen = "error"

-----------------------------------------------------------------------------
(* Properties of BasePage.tap_element *)

Resolves == {i \in DOMAIN tlog : tlog[i].e = "resolve"}
NeverResolved == \A i \in Resolves : tlog[i].h = 0
TapRaised == tpc = "done" /\ tRet = "raise"

\* C5 as stated: tap_element on a target that never resolves makes exactly
\* max_retries (3) find_element calls before it raises.
C5_ExactlyMaxRetriesResolves ==
    (TapRaised /\ NeverResolved) => Cardinality(Resolves) = MaxRetries

\* C5 amended: on a target that never resolves tap_element makes exactly 3
\* clickable-mode find_element calls and then one visible-mode find_element
\* call for the JavaScript click, 4 calls in all, before it raises.
C5_ThreeClickableThenOneVisible ==
    (TapRaised /\ NeverResolved) =>
        /\ Len(tlog) = 4
        /\ \A i \in 1..3 : tlog[i].e = "resolve" /\ tlog[i].mode /\ tlog[i].a = i - 1
        /\ tlog[4].e = "resolve" /\ ~tlog[4].mode

\* tap_element has raised without any find_element call returning an element
C5_Witness == TapRaised /\ NeverResolved /\ findCalls = 4

\* every native click follows, in its attempt, a clickable-mode resolve that
\* returned its element and a scroll of that element
NativeClickPrepared ==
    \A i \in DOMAIN tlog :
        tlog[i].e = "click" =>
            /\ i >= 3
            /\ tlog[i].h # 0
            /\ tlog[i-1].e = "scroll" /\ tlog[i-1].ok
            /\ tlog[i-1].h = tlog[i].h /\ tlog[i-1].a = tlog[i].a
            /\ tlog[i-2].e = "resolve" /\ tlog[i-2].mode
            /\ tlog[i-2].h = tlog[i].h /\ tlog[i-2].a = tlog[i].a

\* the events of attempt a show that it failed
AttemptFailed(a, before) ==
    \E j \in 1..(before - 1) :
        /\ tlog[j].a = a
        /\ \/ tlog[j].e = "resolve" /\ tlog[j].mode /\ tlog[j].h = 0
           \/ tlog[j].e \in {"scroll", "click"} /\ ~tlog[j].ok

\* the script click comes after three failed native attempts, at most once
JsClickLastResort ==
    /\ \A i \in DOMAIN tlog :
        tlog[i].e = "js" => \A a \in 0..2 : AttemptFailed(a, i)
    /\ Cardinality({i \in DOMAIN tlog : tlog[i].e = "js"}) <= 1

\* C6 as stated: every native click is preceded in its attempt by a
\* clickable-mode resolve and a scroll of the same element; the script click
\* comes only after the third native attempt failed, at most once; the call
\* raises only after the script click has also failed.
C6_RaisesOnlyAfterScriptClickFailed ==
    /\ NativeClickPrepared
    /\ JsClickLastResort
    /\ TapRaised => \E i \in DOMAIN tlog : tlog[i].e = "js" /\ ~tlog[i].ok

\* C6 amended: as stated, except that the call raises only after the
\* script-click fallback has failed: its own visible-mode find_element call
\* returned no element (no script click is issued), or the script click raised.
C6_RaisesOnlyAfterFallbackFailed ==
    /\ NativeClickPrepared
    /\ JsClickLastResort
    /\ TapRaised =>
        LET last == tlog[Len(tlog)]
        IN  \/ last.e = "js" /\ ~last.ok
            \/ last.e = "resolve" /\ ~last.mode /\ last.h = 0

\* a script click that raised after three native clicks that raised
C6_Witness ==
    /\ TapRaised
    /\ Cardinality({i \in DOMAIN tlog : tlog[i].e = "click"}) = 3
    /\ tlog[Len(tlog)].e = "js"

\* C8: tap_element never scrolls or clicks (natively or by script) a handle
\* obtained in an earlier attempt: every command acts on the handle returned
\* by the most recent find_element call.
C8_NoStaleHandle ==
    \A i \in DOMAIN tlog :
        tlog[i].e \in {"scroll", "click", "js"} =>
            \E j \in Resolves :
                /\ j < i
                /\ \A k \in Resolves : k < i => k <= j
                /\ tlog[j].h = tlog[i].h
                /\ tlog[i].h # 0
                /\ \A k \in Resolves : k < j => tlog[k].h # tlog[i].h

\* a script click issued after an earlier attempt had obtained a handle whose
\* click raised
C8_Witness ==
    \E i, j \in DOMAIN tlog :
        /\ j < i
        /\ tlog[j].e = "click" /\ ~tlog[j].ok
        /\ tlog[i].e = "js"

-----------------------------------------------------------------------------
(* A test translating strategy tags, in every letter case of their first *)
(* MaxCasePos characters and in upper case throughout                    *)

\* the tag "accessibility_id"
AccessibilityId ==
    Word(<<"a", "c", "c", "e", "s", "s", "i", "b", "i", "l", "i", "t", "y", "_", "i", "d">>)

\* the nine strategy tags a caller may pass
StrategyTags == {m.key : m \in CommonMapping \cup LinkMapping} \cup {AccessibilityId}

\* strings that are no strategy tag: the empty string, "ids", "css", "text"
OtherTags ==
    {<<>>, Word(<<"i", "d", "s">>), Word(<<"c", "s", "s">>),
     Word(<<"t", "e", "x", "t">>)}

\* str with its letters at the positions S in upper case
Cased(str, S) ==
    [i \in DOMAIN str |-> [str[i] EXCEPT !.up = (i \in S /\ str[i].ch # "_")]]

Tags ==
    {Cased(w, S) : w \in StrategyTags \cup OtherTags, S \in SUBSET (1..MaxCasePos)}
        \cup {Cased(w, DOMAIN w) : w \in StrategyTags \cup OtherTags}

InitBy ==
    /\ now = 0 /\ WaitIdle /\ FindIdle /\ PresentIdle /\ TapIdle /\ ChainIdle
    /\ PageIdle /\ GetIdle /\ FlowIdle
    /\ byFn \in Translators
    /\ by \in Tags
    /\ selenium_by = "pending"

NextBy ==
    Translate /\ UNCHANGED <<now, wvars, fvars, pvars, tvars, hvars, uvars, svars, ovars, evars, mvars, rvars, gvars, kvars, xvars>>

SpecBy == InitBy /\ [][NextBy]_vars

-----------------------------------------------------------------------------
(* Properties of the candidate-locator loops, checked under SpecChain *)

\* the lists that are walked by a loop
Lists == {"chain", "indicators"}

\* the consultations of list L made so far, in the order they were made
Consults(L) == SelectSeq(hlog, LAMBDA e : e.e = "consult" /\ e.p = L)

\* the i-th consultation of a list is of its i-th candidate
InListOrder(cs) == \A i \in DOMAIN cs : cs[i].c = i

\* of the consultations cs of a list, those of candidate k resolved and no
\* other did
OnlyResolved(cs, k) ==
    /\ \E i \in DOMAIN cs : cs[i].c = k /\ cs[i].ok
    /\ \A i \in DOMAIN cs : cs[i].ok => cs[i].c = k

\* the scroll and click of the element of candidate k of list L raised
ClickRaised(L, k) ==
    \E i \in DOMAIN hlog :
        hlog[i].e = "click" /\ hlog[i].p = L /\ hlog[i].c = k /\ ~hlog[i].ok

\* exactly k candidates of list L were consulted, and the finished operation
\* returned or clicked the element of the k-th
StoppedAt(cs, L, k) ==
    /\ Len(cs) = k
    /\ hpc = "done" => hRet \in {ChainFound("elem", L, k), ChainFound("ok", L, k)}

C4_AllFailedReportsNotFound ==
    (hpc = "done" /\ \A i \in DOMAIN hlog : hlog[i].e = "consult" => ~hlog[i].ok)
        => hRet.kind \in {"none", "raise"}

\* get_search_results returned None after its 12 result locators and its 4
\* page indicators all failed to resolve
C4_Witness ==
    /\ hop = "get_search_results"
    /\ hpc = "done"
    /\ hRet = ChainNone
    /\ Len(hlog) = ResultLocators + PageIndicators
    /\ \A i \in DOMAIN hlog : ~hlog[i].ok

-----------------------------------------------------------------------------
(* Properties of the strategy translation, checked under SpecBy *)

\* the lower-case form of a string: its letters, none in upper case
LowerForm(str) == Word([i \in DOMAIN str |-> str[i].ch])

\* the driver's strategy tokens
Tokens ==
    {"id", "xpath", "css selector", "class name", "tag name", "name", "link text",
     "partial link text"}

Translated == selenium_by # "pending"

\* C9: translation never fails: it yields a driver token for every string;
\* a string whose lower-case form is no key of the translator's mapping
\* yields the xpath token, and a string whose lower-case form is a key
\* yields the token of that key, in whatever letter case it is written
C9_TranslationTotalCaseInsensitive ==
    Translated =>
        /\ selenium_by \in Tokens
        /\ (\A m \in ByMapping(byFn) : m.key # LowerForm(by)) => selenium_by = "xpath"
        /\ \A m \in ByMapping(byFn) : m.key = LowerForm(by) => selenium_by = m.token

\* "CSS_selector" and the like were translated to the css selector token
C9_Witness ==
    /\ Translated
    /\ \E i \in DOMAIN by : by[i].up
    /\ selenium_by = "css selector"

\* the driver token of each of the nine strategy tags
OwnToken ==
    CommonMapping \cup LinkMapping
        \cup {[key |-> AccessibilityId, token |-> "accessibility id"]}

\* C10 as stated: _convert_to_selenium_by and wait_for_element translate
\* each of the nine strategy tags to its own driver token, and translate to
\* the xpath default only "xpath" and strings outside the nine
C10_NineTagsOwnToken ==
    (Translated /\ byFn \in {"_convert_to_selenium_by", "wait_for_element"}) =>
        /\ \A m \in OwnToken : by = m.key => selenium_by = m.token
        /\ (selenium_by = "xpath" /\ LowerForm(by) \in StrategyTags)
            => LowerForm(by) = Word(<<"x", "p", "a", "t", "h">>)

\* C32 (as claimed): the four translators agree: whatever tag one of them
\* has translated, each of the others translates to the same driver token
C32_TranslatorsAgree ==
    Translated => \A fn \in Translators : ConvertToSeleniumBy(fn, by) = selenium_by

-----------------------------------------------------------------------------
(* A test calling BasePage.send_text and BasePage.get_text *)

CallText ==
    /\ TopIdle
    /\ \E op \in TextOps, arg \in TapTimeouts : TextCall(op, arg)
    /\ UNCHANGED <<wvars, pvars, tvars, hvars, bvars, svars, ovars, evars, mvars, rvars, gvars, kvars, xvars>>

ReturnText ==
    /\ TextTaken
    /\ now' = 0
    /\ UNCHANGED <<wvars, fvars, pvars, tvars, hvars, bvars, svars, ovars, evars, mvars, rvars, gvars, kvars, xvars>>

NextText == CallText \/ FindElementStep \/ TextStep \/ ReturnText

SpecText == InitResolve /\ [][NextText]_vars

-----------------------------------------------------------------------------
(* Properties of send_text and get_text, checked under SpecText *)

\* the commands issued on elements so far: the entries of ulog but the resolve
TextCommands == SubSeq(ulog, 2, Len(ulog))

\* the resolve returned an element
TextFound == Len(ulog) >= 1 /\ ulog[1].h # 0

\* every command follows a visible-mode resolve that returned an element,
\* and is issued on that element
OnResolvedElement ==
    /\ ulog # <<>> => ulog[1].e = "resolve" /\ ~ulog[1].mode
    /\ \A i \in 2..Len(ulog) : ulog[i].e # "resolve" /\ ulog[i].h = ulog[1].h
    /\ upc \in {"clear", "send", "read"} => TextFound

\* C11 as stated: send_text on a target that resolves issues clear and then
\* send_keys, exactly once each, on the element of the visible-mode resolve,
\* and neither before the resolve returned an element
C11_ClearThenSendKeysOnce ==
    uop = "send_text" =>
        /\ OnResolvedElement
        /\ (upc = "done" /\ TextFound) =>
            /\ Len(TextCommands) = 2
            /\ TextCommands[1].e = "clear"
            /\ TextCommands[2].e = "send_keys"

\* C11 amended: send_text on a target that resolves issues clear exactly
\* once and then, unless clear raised, send_keys exactly once, on the element
\* of the visible-mode resolve, and neither before the resolve returned an
\* element; when clear raises, send_text raises and issues no send_keys
C11_ClearThenSendKeysUnlessRaised ==
    uop = "send_text" =>
        /\ OnResolvedElement
        /\ (upc = "done" /\ TextFound) =>
            /\ Len(TextCommands) >= 1
            /\ TextCommands[1].e = "clear"
            /\ IF TextCommands[1].ok
               THEN Len(TextCommands) = 2 /\ TextCommands[2].e = "send_keys"
               ELSE Len(TextCommands) = 1 /\ uRet = "raise"

\* send_text cleared the element and sent the text
C11_Witness ==
    /\ uop = "send_text"
    /\ upc = "done"
    /\ uRet = "ok"
    /\ ulog = <<Event("resolve", 0, 1, TRUE, FALSE), Event("clear", 0, 1, TRUE, FALSE),
                Event("send_keys", 0, 1, TRUE, FALSE)>>

\* C12: send_text and get_text whose resolve yields no element raise, and
\* issue no clear, send_keys or text read
C12_UnresolvedRaisesWithoutCommands ==
    /\ (upc = "done" /\ ~TextFound) => uRet = "raise" /\ TextCommands = <<>>
    /\ TextCommands # <<>> => TextFound

\* get_text raised after find_element returned None
C12_Witness ==
    /\ uop = "get_text"
    /\ upc = "done"
    /\ uRet = "raise"
    /\ ulog = <<Event("resolve", 0, 0, TRUE, FALSE)>>

-----------------------------------------------------------------------------
(* A test calling BasePage.scroll_to_element *)

CallScroll ==
    /\ TopIdle
    /\ \E n \in 0..MaxScrolls : ScrollCall(n)
    /\ UNCHANGED <<wvars, pvars, tvars, hvars, bvars, uvars, ovars, evars, mvars, rvars, gvars, kvars, xvars>>

ReturnScroll ==
    /\ ScrollTaken
    /\ now' = 0
    /\ UNCHANGED <<wvars, fvars, pvars, tvars, hvars, bvars, uvars, ovars, evars, mvars, rvars, gvars, kvars, xvars>>

NextScroll == CallScroll \/ FindElementStep \/ ScrollStep \/ ReturnScroll

SpecScroll == InitResolve /\ [][NextScroll]_vars

\* C13 as stated: scroll_to_element returns the found element or None and
\* never raises, for every max_scrolls and whatever the driver does,
\* a failing swipe included
C13_ScrollNeverRaises == spc = "done" => sRet \in {"elem", "none"}

\* the entries of slog of one kind
ScrollEvents(e) == {k \in DOMAIN slog : slog[k].e = e}

\* C35 (as claimed): scroll_to_element alternates resolve and swipe, starting
\* with a resolve; on an element that never resolves it has made exactly
\* max_scrolls resolve attempts and max_scrolls swipes when it ends, and
\* returns None; when the i-th attempt resolves it returns the element after
\* i resolves and i-1 swipes; with max_scrolls = 0 it returns None without a
\* driver command
C35_ScrollCounts ==
    /\ \A k \in DOMAIN slog : slog[k].e = (IF k % 2 = 1 THEN "resolve" ELSE "swipe")
    /\ spc = "done" =>
        IF \E k \in ScrollEvents("resolve") : slog[k].ok
        THEN /\ sRet = "elem"
             /\ slog[Len(slog)].e = "resolve" /\ slog[Len(slog)].ok
             /\ Cardinality(ScrollEvents("swipe")) = Cardinality(ScrollEvents("resolve")) - 1
        ELSE /\ sRet = "none"
             /\ Cardinality(ScrollEvents("resolve")) = max_scrolls
             /\ Cardinality(ScrollEvents("swipe")) = max_scrolls
    /\ (spc = "done" /\ max_scrolls = 0) => (slog = <<>> /\ sRet = "none")

-----------------------------------------------------------------------------
(* A test calling the optional flows *)

CallOptional ==
    /\ TopIdle
    /\ \E op \in OptionalOps : OptionalCall(op)
    /\ UNCHANGED <<fvars, pvars, tvars, hvars, bvars, uvars, svars, evars, mvars, rvars, gvars, kvars, xvars>>

ReturnOptional ==
    /\ OptionalTaken
    /\ now' = 0
    /\ UNCHANGED <<wvars, fvars, pvars, tvars, hvars, bvars, uvars, svars, evars, mvars, rvars, gvars, kvars, xvars>>

NextOptional ==
    \/ CallOptional
    \/ PageLoadPoll
    \/ WaitForElementStep
    \/ ClickablePoll
    \/ OptionalStep
    \/ ReturnOptional

SpecOptional == InitResolve /\ [][NextOptional]_vars

-----------------------------------------------------------------------------
(* Properties of the optional flows, checked under SpecOptional *)

\* C14: enter_search_text returns without raising when none of its
\* candidates resolved, whatever the driver did, and has then issued no
\* clear or send_keys on any element
C14_EnterSearchTextOptional ==
    oop = "enter_search_text" =>
        /\ (opc = "done" /\ ~oFound) => oRet = "ok"
        /\ ~oFound => oCmds = {}

\* enter_search_text returned after its 9 candidates failed to resolve
C14_Witness ==
    /\ oop = "enter_search_text"
    /\ opc = "done"
    /\ oidx = InputLocators
    /\ ~oFound
    /\ oRet = "ok"

\* C15 as stated: close_login_popup, select_first_suggestion and close_popup
\* never raise, whatever the driver does, and issue no command when their
\* target is absent
C15_OptionalFlowsNeverRaise ==
    oop \in {"close_login_popup", "select_first_suggestion", "close_popup"} =>
        /\ opc = "done" => oRet = "ok"
        /\ ~oFound => oCmds = {}

\* ticks the running WaitUtil.wait_for_element call has slept
Blocked == wStart + now

\* C19 as stated: the resolution of a candidate of close_login_popup blocks
\* no longer than the candidate's own timeout, so that the flow blocks no
\* longer than the sum of its candidates' timeouts
C19_CandidateBlocksOnlyItsTimeout ==
    (oop = "close_login_popup" /\ opc = "resolve") => Blocked <= Ticks(wTimeout)

\* C23: select_tomorrow_date raises an Exception when none of its candidate
\* locators found the date element
C23_DateNotFoundRaises ==
    (oop = "select_tomorrow_date" /\ opc = "done" /\ ~oFound) => oRet = "raise"

-----------------------------------------------------------------------------
(* Properties of the required flows, checked under SpecChain *)

\* a native or script click was issued without raising, on the element the
\* resolve of a candidate had just returned
ClickIssued ==
    \E i \in 2..Len(hlog) :
        /\ hlog[i].e \in {"click", "js"}
        /\ hlog[i].ok
        /\ hlog[i - 1] = ChainEvent("consult", hlog[i].p, hlog[i].c, TRUE)

\* C16: tap_hotels_tab and tap_search_button return normally only if a
\* click, native or by script, was issued without raising on an element
\* resolved from one of their candidates, and raise if none was
C16_ReturnsOnlyAfterClick ==
    (hop \in {"tap_hotels_tab", "tap_search_button"} /\ hpc = "done") =>
        /\ hRet.kind \in {"ok", "raise"}
        /\ hRet.kind = "ok" <=> ClickIssued

\* tap_hotels_tab returned after the script click on its first locator, its
\* four candidates having failed to resolve
C16_Witness ==
    /\ hop = "tap_hotels_tab"
    /\ hpc = "done"
    /\ hRet.kind = "ok"
    /\ Len(hlog) = HotelsLocators + 2
    /\ hlog[Len(hlog)] = ChainEvent("js", "js", 1, TRUE)

-----------------------------------------------------------------------------
(* Properties of the resolution operations under driver errors and of the *)
(* time they block, checked under SpecResolve                             *)

\* C17 as stated: wait_for_element and find_element never let a driver
\* error through: whatever stage it is raised in, they return an element or
\* None
C17_DriverErrorIsNotFound ==
    /\ (wFn = "wait_for_element" /\ wpc = "done") => wRet.kind \in {"elem", "none"}
    /\ fpc = "done" => fRet.kind \in {"elem", "none"}

\* the three stage budgets of the running wait_for_element call (ticks)
SumOfBudgets ==
    StageBudget(1, wTimeout) + StageBudget(2, wTimeout) + StageBudget(3, wTimeout)

InManualPolling ==
    /\ wFn = "wait_for_element"
    /\ wpc = "s3" \/ (wpc = "done" /\ wRet.stage = 3)

\* the driver is queried once per poll interval until the stage deadline:
\* every failed poll is followed by one poll interval of sleep, only the
\* recovery pauses add to that, and the stage gives up only at its deadline
PolledUntilDeadline ==
    /\ polls <= now
    /\ now <= polls + recoveries * Ticks(RecoveryPause)
    /\ wRet = None_(3) => now >= wEnd

\* C27 as stated: in the manual polling stage the driver is queried once per
\* poll interval until the deadline, a recovery scroll is issued after every
\* third failed poll, and a failing recovery never aborts the polling (the
\* stage never raises)
C27_RecoveryEveryThirdFailedPoll ==
    InManualPolling =>
        /\ PolledUntilDeadline
        /\ recoveries = polls \div RecoveryEvery
        /\ wRet.kind # "raise"

\* C27 amended: the recovery scroll is issued after every third poll that
\* raised (element not found, or a driver error); polls that find the
\* element not displayed are not counted
C27_RecoveryEveryThirdRaisingPoll ==
    InManualPolling =>
        /\ PolledUntilDeadline
        /\ recoveries = attempts \div RecoveryEvery
        /\ wRet.kind # "raise"

\* a stage that polled to its deadline, with a poll that found the element
\* hidden, a recovery scroll that raised and one that did not
C27_Witness ==
    /\ InManualPolling
    /\ wRet = None_(3)
    /\ polls > attempts
    /\ recoveries >= 2
    /\ now > polls
    /\ now < polls + recoveries * Ticks(RecoveryPause)

-----------------------------------------------------------------------------
(* A test calling find_element in clickable mode on a page whose element  *)
(* is covered by an overlay until late in the budget                      *)

\* the times (ms) within a budget of `timeout` seconds at which the overlay
\* may lift
ReadyTimes(timeout) == 0..(Ms(Ticks(timeout)) - 1)

CallCovered ==
    /\ TopIdle
    /\ \E t \in 1..MaxTimeout :
        /\ FindElementCall({t}, TRUE)
        /\ \E ms \in ReadyTimes(t) : readyAt' = ms
    /\ UNCHANGED <<wvars, pvars, tvars, hvars, bvars, uvars, svars, ovars, mvars, rvars, gvars, kvars, xvars>>

ReturnCovered ==
    /\ FindTaken
    /\ now' = 0
    /\ readyAt' = NoScene
    /\ UNCHANGED <<wvars, pvars, tvars, hvars, bvars, uvars, svars, ovars, mvars, rvars, gvars, kvars, xvars>>

NextCovered == CallCovered \/ FindPrimaryPoll \/ FindFallbackPoll \/ ReturnCovered

SpecCovered == InitResolve /\ [][NextCovered]_vars

-----------------------------------------------------------------------------
(* Properties of the overlay scenario, checked under SpecCovered *)

\* C20: a clickable-mode find_element on an element that is rendered from
\* the start and clickable only from some time within the budget (950 ms
\* of 1000 ms included) returns that element: the call runs on only while
\* the element was not clickable at its last query, it never gets to the
\* refresh, and what it returns is the clickable element
C20_CoveredUntilLateIsFound ==
    readyAt # NoScene =>
        /\ fpc \in {"primary", "fallback", "done"}
        /\ (fpc = "primary" /\ now > 0) => Ms(now - 1) < readyAt
        /\ fpc = "fallback" => now = 0
        /\ fpc = "done" => (fRet.kind = "elem" /\ fRet.seen = "ok")

\* the call with a budget of 1 s on an element clickable from 950 ms: the
\* primary wait ran out and the presence fallback returned the element
C20_Witness ==
    /\ readyAt = 950
    /\ fTimeout = 1
    /\ fClickable
    /\ fpc = "done"
    /\ fRet = Elem(2, "ok")

-----------------------------------------------------------------------------
(* A test calling DriverManager directly, and a run of tests that use the *)
(* driver fixture                                                         *)

\* the variables of the page-object layer and of the configuration
pagevars ==
    <<now, wvars, fvars, pvars, tvars, hvars, bvars, uvars, svars, ovars, evars, gvars, kvars,
      xvars>>

CallCreateDriver ==
    /\ Len(mOps) < MaxCalls
    /\ CreateDriver
    /\ UNCHANGED <<pagevars, rvars, gvars, kvars, xvars>>

CallQuitDriver ==
    /\ Len(mOps) < MaxCalls
    /\ QuitDriver
    /\ UNCHANGED <<pagevars, rvars, gvars, kvars, xvars>>

NextManager == CallCreateDriver \/ CallQuitDriver

SpecManager == InitResolve /\ [][NextManager]_vars

RunStep ==
    \/ tests < MaxTests /\ StartTest
    \/ FixtureSetup
    \/ TestCall
    \/ FixtureTeardown
    \/ MakeReport
    \/ SessionFinish

NextRun == RunStep /\ UNCHANGED pagevars

SpecRun == InitResolve /\ [][NextRun]_vars

-----------------------------------------------------------------------------
(* Properties of the driver sessions, checked under SpecManager and SpecRun *)

\* C21: every session the driver fixture created is quit at the end of its
\* test, however the test ended: between two tests, and when the run has
\* ended, no session is live
C21_SessionQuitAtTestEnd ==
    rpc \in {"idle", "ended"} => live = {}

\* a test that raised has ended and the session it was given is quit
C21_Witness ==
    /\ rpc = "idle"
    /\ callOutcome = "error"
    /\ funcargs # 0
    /\ funcargs \notin live
    /\ live = {}

\* C22: after any sequence of create_driver and quit_driver calls a manager
\* holds at most one live session that it created
C22_AtMostOneLiveSession ==
    Cardinality(live) <= 1

\* a second create_driver has replaced the first session
C22_Witness ==
    /\ sessions >= 2
    /\ live = {sessions}
    /\ _driver = sessions

-----------------------------------------------------------------------------
(* A test calling ConfigReader.get *)

\* the keys of the documents and of the paths
ConfigKeys == {"a", "b"}

\* values that are not mappings
Leaves == {NoneValue, Scalar("x")}

\* the mappings from some of the keys to values of V
DictsOf(V) == UNION {{Dict(f) : f \in [D -> V]} : D \in SUBSET ConfigKeys}

\* sections: mappings of settings
Sections == DictsOf(Leaves)

\* documents: None (an empty file), a scalar, or a mapping of settings and
\* sections
Configs == Leaves \cup DictsOf(Leaves \cup Sections)

\* key paths of up to MaxPath keys
Paths == UNION {[1..n -> ConfigKeys] : n \in 0..MaxPath}

\* the defaults passed: None (the default of `default`) or a value of the
\* caller's that no document holds
Defaults == {NoneValue, Scalar("default")}

InitGet ==
    /\ now = 0 /\ WaitIdle /\ FindIdle /\ PresentIdle /\ TapIdle /\ ChainIdle /\ ByIdle
    /\ PageIdle /\ FlowIdle
    /\ config \in Configs
    /\ keys \in Paths
    /\ default \in Defaults
    /\ gRet = GetPending

NextGet ==
    Get /\ UNCHANGED <<now, wvars, fvars, pvars, tvars, hvars, bvars, uvars, svars, ovars, evars, mvars, rvars, kvars, xvars>>

SpecGet == InitGet /\ [][NextGet]_vars

-----------------------------------------------------------------------------
(* Properties of ConfigReader.get, checked under SpecGet *)

\* the values held by document c, each with the key path that leads to it
RECURSIVE Entries(_)
Entries(c) ==
    {<<(<<>>), c>>} \cup
    (IF IsDict(c)
     THEN UNION {{<<(<<k>>) \o e[1], e[2]>> : e \in Entries(c.items[k])} :
                    k \in DOMAIN c.items}
     ELSE {})

\* the key path ks is found in document c
PathFound(c, ks) == \E e \in Entries(c) : e[1] = ks

\* C24: get returns the value stored at the key path when every key of the
\* path exists, and returns `default`, without raising, when the path is
\* not found, also when a value on the way is not a mapping
C24_GetReturnsStoredOrDefault ==
    gRet # GetPending =>
        IF PathFound(config, keys)
        THEN \E e \in Entries(config) : e[1] = keys /\ gRet = Returned(e[2])
        ELSE gRet = Returned(default)

\* a path of two keys whose first key holds a scalar: get returned the default
C24_Witness ==
    /\ Len(keys) = 2
    /\ IsDict(config)
    /\ keys[1] \in DOMAIN config.items
    /\ config.items[keys[1]] = Scalar("x")
    /\ default = Scalar("default")
    /\ gRet = Returned(default)

-----------------------------------------------------------------------------
(* A run of test_bangalore_hotel_search_realistic *)

NextFlow ==
    (FlowCall \/ FlowStep \/ FlowTaken)
        /\ UNCHANGED <<now, wvars, fvars, pvars, tvars, hvars, bvars, uvars, svars, ovars, evars, mvars, rvars, gvars, xvars>>

SpecFlow == InitResolve /\ [][NextFlow]_vars

-----------------------------------------------------------------------------
(* Properties of the test flow, checked under SpecFlow *)

\* the calls whose exception C28 says the test survives
Survived == {"click_search_field", "enter_search_text", "select_first_suggestion",
             "select_tomorrow_date"}

\* the step of the flow a call belongs to: close_login_popup, tap_hotels_tab,
\* city search, date selection, tap_search_button, close_popup, result
\* verification (0: the navigation before the first step)
StepOf(c) ==
    CASE c \in {"get", "wait_for_page_load"} -> 0
      [] c = "close_login_popup" -> 1
      [] c = "tap_hotels_tab" -> 2
      [] c \in {"click_search_field", "enter_search_text", "select_first_suggestion"} -> 3
      [] c = "select_tomorrow_date" -> 4
      [] c = "tap_search_button" -> 5
      [] c = "close_popup" -> 6
      [] OTHER -> 7

\* C28: an exception of click_search_field, enter_search_text,
\* select_first_suggestion or select_tomorrow_date neither fails nor stops
\* the test: right after it the test is still running, and once the test
\* is over tap_search_button was invoked after it; the steps are invoked in
\* the order of the flow, each step only after every step before it
C28_CitySearchFailureTolerated ==
    /\ \A i \in DOMAIN flowlog :
        (flowlog[i].op \in Survived /\ flowlog[i].how = "raise") =>
            /\ i = Len(flowlog) => (flowpc # "done" /\ flowRet = "pending")
            /\ flowpc = "done" =>
                \E j \in DOMAIN flowlog : j > i /\ flowlog[j].op = "tap_search_button"
    /\ \A i, j \in DOMAIN flowlog :
        i < j => StepOf(flowlog[i].op) <= StepOf(flowlog[j].op)
    /\ \A j \in DOMAIN flowlog : \A n \in 1..(StepOf(flowlog[j].op) - 1) :
        \E i \in DOMAIN flowlog : i < j /\ StepOf(flowlog[i].op) = n

\* click_search_field raised, and the test went on to tap_search_button and
\* passed
C28_Witness ==
    /\ flowpc = "done"
    /\ flowRet = "passed"
    /\ \E i, j \in DOMAIN flowlog :
        /\ i < j
        /\ flowlog[i] = Call("click_search_field", "raise")
        /\ flowlog[j] = Call("tap_search_button", "ok")
    /\ \E i \in DOMAIN flowlog : flowlog[i] = Call("select_tomorrow_date", "raise")

-----------------------------------------------------------------------------
(* Properties of find_element and is_element_present, checked under      *)
(* SpecResolve                                                            *)

\* C29: called with wait_for_clickable=True, find_element returns only an
\* element that was displayed and enabled at the check that accepted it,
\* whichever stage returned it
C29_ClickableModeReturnsClickable ==
    (fpc = "done" /\ fClickable /\ fRet.kind = "elem") => Clickable(fRet.seen)

\* C30: is_element_present issues no page refresh, whether or not the
\* element is present
C30_IsPresentIssuesNoRefresh ==
    ppc # "idle" => refreshes = 0

\* C31 (as claimed): an explicit timeout argument of find_element, 0
\* included, is the budget of the primary wait; self.timeout is used only
\* when the argument is None.
C31_ExplicitTimeoutIsBudget ==
    (fpc # "idle" /\ fArg # {}) => fArg = {fTimeout}

\* the stages of find_element that have ended
Ran(stage) == \E i \in DOMAIN fLog : fLog[i].stage = stage
\* the stages that ended with the element in hand
Gave(stage) == \E i \in DOMAIN fLog : fLog[i].stage = stage /\ fLog[i].how = "found"
\* the call has issued its refresh
HasRefreshed == refreshes > 0

\* C33 (as claimed): find_element refreshes at most once per call and only
\* after the primary wait and the presence fallback have both run and
\* returned no element; a call whose primary wait or presence fallback
\* returns an element issues no refresh
C33_RefreshOnlyAfterBothWaitsFailed ==
    /\ refreshes <= 1
    /\ HasRefreshed =>
        /\ Ran("primary") /\ ~Gave("primary")
        /\ Ran("fallback") /\ ~Gave("fallback")
    /\ (Gave("primary") \/ Gave("fallback")) => ~HasRefreshed

\* C33 (amended): find_element refreshes at most once per call and only
\* after the primary wait returned no element and the presence fallback,
\* which runs only when the primary wait timed out and is skipped when it
\* raised another error, returned none; a call whose primary wait or
\* presence fallback returns an element issues no refresh
C33_RefreshOnlyAfterNoElement ==
    /\ refreshes <= 1
    /\ HasRefreshed =>
        /\ Ran("primary") /\ ~Gave("primary")
        /\ IF fLog[1].how = "timeout"
           THEN Ran("fallback") /\ ~Gave("fallback")
           ELSE fLog[1].how = "error" /\ ~Ran("fallback")
    /\ (Gave("primary") \/ Gave("fallback")) => ~HasRefreshed /\ fpc = "done"
    /\ Ran("fallback") => fLog[1] = [stage |-> "primary", how |-> "timeout"]

\* a call refreshed the page after its primary wait timed out and its
\* presence fallback returned no element, and is in the wait that follows
C33_Witness ==
    /\ fpc = "retry"
    /\ HasRefreshed
    /\ fLog[1].how = "timeout"
    /\ Ran("fallback")

-----------------------------------------------------------------------------
(* A test calling the operations that click: tap_element, the loops of    *)
(* tap_hotels_tab, click_search_field and tap_search_button, and           *)
(* close_login_popup                                                       *)

CallClickOp ==
    /\ TopIdle
    /\ \E op \in ClickOps : ChainCall(op)
    /\ UNCHANGED <<fvars, pvars, tvars, bvars, uvars, svars, ovars, evars, mvars, rvars, gvars, kvars, xvars>>

CallCloseLoginPopup ==
    /\ TopIdle
    /\ OptionalCall("close_login_popup")
    /\ UNCHANGED <<fvars, pvars, tvars, hvars, bvars, uvars, svars, evars, mvars, rvars, gvars, kvars, xvars>>

NextClick ==
    \/ CallTapElement
    \/ CallClickOp
    \/ CallCloseLoginPopup
    \/ PageLoadPoll
    \/ WaitForElementStep
    \/ ClickablePoll
    \/ FindElementStep
    \/ TapElementStep
    \/ ChainStep
    \/ OptionalResolved
    \/ OptionalAct
    \/ ReturnTap
    \/ ReturnChain
    \/ ReturnOptional

SpecClick == InitResolve /\ [][NextClick]_vars

-----------------------------------------------------------------------------
(* Properties of the operations that click, checked under SpecClick *)

\* the click commands of a log, native or script-based, that did not raise
Clicked(log) == {i \in DOMAIN log : log[i].e \in {"click", "js"} /\ log[i].ok}

\* a log with at most one click that did not raise, which is then its last
\* entry
EndsAtFirstClick(log) ==
    /\ Cardinality(Clicked(log)) <= 1
    /\ Clicked(log) \subseteq {Len(log)}

\* C34: an invocation of tap_element, tap_hotels_tab, close_login_popup,
\* click_search_field or tap_search_button issues at most one click command
\* (native or script-based) that does not raise, and once a click has not
\* raised the operation returns normally without another candidate, retry or
\* command
C34_AtMostOneSuccessfulClick ==
    /\ EndsAtFirstClick(tlog)
    /\ Clicked(tlog) # {} => (tpc = "done" /\ tRet = "ok")
    /\ EndsAtFirstClick(hlog)
    /\ Clicked(hlog) # {} => (hpc = "done" /\ hRet.kind = "ok")
    /\ oClicks <= 1
    /\ oClicks = 1 => (opc = "done" /\ oRet = "ok")

\* click_search_field returned after the click on the 'Near me' button, the
\* click on the element of one of its city-search locators having raised
C34_Witness ==
    /\ hop = "click_search_field"
    /\ hpc = "done"
    /\ hRet = ChainFound("ok", "near me", 1)
    /\ \E i \in DOMAIN hlog : hlog[i].e = "click" /\ ~hlog[i].ok /\ hlog[i].p = "chain"
    /\ Cardinality(Clicked(hlog)) = 1

-----------------------------------------------------------------------------
(* Properties of get_search_results, checked under SpecChain *)

\* C36 (as claimed): get_search_results(text) returns an element only if an
\* element whose text contains `text` was resolved: the element it returns
\* was selected by a locator that requires the text
C36_ResultContainsText ==
    (hop = "get_search_results" /\ hpc = "done" /\ hRet.kind = "elem") =>
        SelectsByText(hRet.p, hRet.c)

-----------------------------------------------------------------------------
(* Properties of DriverManager, checked under SpecManager *)

\* quit() has returned normally on session d
QuitCompleted(d) == \E i \in DOMAIN mlog : mlog[i] = Command("quit", d, TRUE)

\* C37: whatever create_driver and quit_driver calls were made, and whether
\* or not session creation failed or quit() raised, get_driver returns None
\* or a session that was created and on which no quit() has completed
C37_StoredDriverNotQuit ==
    _driver # 0 => (_driver \in 1..sessions /\ ~QuitCompleted(_driver))

\* a session creation has failed, and the manager still holds a session
\* whose quit() raised
C37_Witness ==
    /\ _driver # 0
    /\ \E i \in DOMAIN mlog : mlog[i] = Command("quit", _driver, FALSE)
    /\ \E i \in DOMAIN mlog : mlog[i] = Command("new", 0, FALSE)

\* C38: after a quit_driver call that returned normally get_driver returns
\* None, and a quit_driver call that follows it issues no session command,
\* returns normally and leaves the manager holding None
C38_QuitDriverIdempotent ==
    \A i \in DOMAIN mOps :
        (mOps[i].op = "quit_driver" /\ mOps[i].ret = "ok") =>
            /\ mOps[i].held = 0
            /\ (i < Len(mOps) /\ mOps[i + 1].op = "quit_driver")
                => mOps[i + 1] = Called("quit_driver", "ok", 0, 0)

\* a quit_driver call quit the session of the manager and the quit_driver
\* call after it has returned
C38_Witness ==
    \E i \in DOMAIN mOps :
        /\ i < Len(mOps)
        /\ mOps[i] = Called("quit_driver", "ok", 1, 0)
        /\ mOps[i + 1].op = "quit_driver"

-----------------------------------------------------------------------------
(* Properties of the driver fixture, checked under SpecRun *)

\* the fixture read a configuration without a server URL or, the test having
\* no parameter, without a capabilities file name
Unconfigured ==
    /\ setup.raised # "OSError"
    /\ setup # NoSetup
    /\ \/ setup.server_url \in {"None", ""}
       \/ setup.param = "None" /\ setup.file \in {"None", ""}

\* C39: when the Appium server URL or the capabilities file name is not
\* configured, the driver fixture raises ValueError, and from the start of
\* the test to its end no session is created for it and no quit is issued
C39_NoSessionWhenUnconfigured ==
    Unconfigured =>
        /\ setup.raised = "ValueError"
        /\ funcargs = 0
        /\ _driver = 0
        /\ Len(mlog) = setup.base

\* a test whose configuration has a server URL and no capabilities file name
\* has ended
C39_Witness ==
    /\ rpc = "idle"
    /\ tests >= 1
    /\ Unconfigured
    /\ setup.server_url = "set"
    /\ setup.raised = "ValueError"

-----------------------------------------------------------------------------
(* A test constructing a page object on a session with up to MaxContexts *)
(* contexts                                                               *)

RECURSIVE ContextLists(_)
ContextLists(n) ==
    IF n = 0 THEN {<<>>}
    ELSE ContextLists(n - 1)
            \cup {Append(l, c) : l \in {k \in ContextLists(n - 1) : Len(k) = n - 1},
                                 c \in ContextNames}

InitContext ==
    /\ now = 0 /\ WaitIdle /\ FindIdle /\ PresentIdle /\ TapIdle /\ ChainIdle /\ ByIdle
    /\ TextIdle /\ ScrollIdle /\ OptionalIdle /\ readyAt = NoScene /\ ManagerIdle /\ RunIdle
    /\ GetIdle /\ FlowIdle
    /\ contexts \in ContextLists(MaxContexts)
    /\ current_context \in ContextNames
    /\ xpc = "idle"
    /\ xRet = "pending"
    /\ xlog = <<>>

NextContext ==
    Construct /\ UNCHANGED <<now, wvars, fvars, pvars, tvars, hvars, bvars, uvars, svars, ovars, evars, mvars, rvars, gvars, kvars>>

SpecContext == InitContext /\ [][NextContext]_vars

-----------------------------------------------------------------------------
(* Properties of BasePage._ensure_web_context, checked under SpecContext *)

\* the switch commands the constructor issued
Switches == {i \in DOMAIN xlog : xlog[i].cmd = "switch"}

\* context c is the first of the list whose name has WEBVIEW or CHROMIUM
IsFirstWeb(c) ==
    \E i \in DOMAIN contexts :
        /\ contexts[i] = c
        /\ IsWebContext(c)
        /\ \A j \in 1..(i - 1) : ~IsWebContext(contexts[j])

\* C40: constructing a page object never raises because of the context
\* handling: it issues at most one switch, to the first context in list
\* order whose name contains WEBVIEW or CHROMIUM and only when the current
\* context differs from it; it issues that switch whenever the current
\* context differs and no command raised before; it issues no switch when
\* the list has no such context; a command that raises changes nothing and
\* is swallowed
C40_EnsureWebContext ==
    xpc = "done" =>
        /\ xRet = "ok"
        /\ Cardinality(Switches) <= 1
        /\ \A i \in Switches : IsFirstWeb(xlog[i].arg) /\ xlog[i].from # xlog[i].arg
        /\ (\A i \in DOMAIN contexts : ~IsWebContext(contexts[i])) => Switches = {}
        /\ (Switches = {} /\ \A i \in DOMAIN xlog : xlog[i].ok)
            => (IsFirstWeb(current_context)
                \/ \A i \in DOMAIN contexts : ~IsWebContext(contexts[i]))
        /\ \A i \in Switches : current_context = (IF xlog[i].ok THEN xlog[i].arg
                                                               ELSE xlog[i].from)

\* the session had two web contexts after the native one and the page
\* object switched it to the first of them
C40_Witness ==
    /\ xpc = "done"
    /\ Len(contexts) = 3
    /\ ~IsWebContext(contexts[1])
    /\ IsWebContext(contexts[2]) /\ IsWebContext(contexts[3])
    /\ contexts[2] # contexts[3]
    /\ \E i \in Switches : xlog[i].ok /\ xlog[i].arg = contexts[2]
    /\ current_context = contexts[2]

=============================================================================
